---- MODULE Spec2Model ----
(***************************************************************************)
(* Frame progress engine of espresso_charts.py: the easing functions, the  *)
(* _typewriter text reveal and the per-frame update closures of the         *)
(* animated chart functions, driven frame by frame by FuncAnimation.save;   *)
(* and the media pipeline and publishing functions, with the processes      *)
(* they run and the HTTP requests they send.                                *)
(*                                                                          *)
(* Python floats are modelled as exact rationals <<n, d>> in lowest terms   *)
(* with d > 0.  <<0, 0>> stands for the outcome of a float division by      *)
(* zero (ZeroDivisionError); it is absorbing under the arithmetic below.    *)
(***************************************************************************)
EXTENDS Integers, Sequences, FiniteSets, TLC

VARIABLES
    pc,            \* "idle" | "saving" | "saved" | "raised": position in a chart call
    chart,         \* name of the animated chart function being run
    args,          \* keyword arguments of the call
    ease_fn,       \* closure variable: name of the selected easing function
    total_anim,    \* closure variable
    total_frames,  \* closure variable, also FuncAnimation(frames=...)
    frame,         \* last frame index passed to update, -1 before the first
    progress,      \* progress computed by the last update
    artists,       \* state of the animated matplotlib artists
    saved,         \* number of frames grabbed by the writer
    exc,           \* exception that ended the call, "none" otherwise
    call,          \* a direct call of a helper or pipeline function: [fn, in, out]
    memo,          \* artists' state remembered from one earlier update(frame)
    world,         \* files and remote resources the pipeline functions act on
    trace          \* external processes run and HTTP requests sent, in order

vars == <<pc, chart, args, ease_fn, total_anim, total_frames, frame,
          progress, artists, saved, exc, call, memo, world, trace>>

(***************************************************************************)
(* Bounds of the model.                                                     *)
(***************************************************************************)
MaxFps == 3          \* fps ranges over 1..MaxFps
DurUnit == 2         \* durations are multiples of 1/DurUnit seconds
MaxDurUnits == 4     \* duration ranges over (1..MaxDurUnits)/DurUnit
MaxHold == 2         \* hold_frames ranges over 0..MaxHold
MaxReplayFrames == 4 \* longest animation whose frames are drawn out of sequence
MaxSessionCalls == 3 \* calls made on one SubstackPublisher
MaxExternal == 6     \* external interactions whose outcome the environment picks
MaxDen == 8          \* helper inputs are the rationals k/d, 0 <= k <= d <= MaxDen

(***************************************************************************)
(* Float arithmetic, exact.                                                 *)
(***************************************************************************)
Abs(a) == IF a < 0 THEN -a ELSE a

RECURSIVE GCD(_, _)
GCD(a, b) == IF b = 0 THEN a ELSE GCD(b, a % b)

Norm(n, d) ==
    IF d = 0 THEN <<0, 0>>
    ELSE LET g == GCD(Abs(n), Abs(d))
             s == IF d < 0 THEN -1 ELSE 1
         IN  <<s * (n \div g), s * (d \div g)>>

Rat(n, d) == Norm(n, d)
FromInt(i) == <<i, 1>>
Zero == <<0, 1>>
One == <<1, 1>>
ZeroDivision == <<0, 0>>
IsZeroDivision(a) == a[2] = 0

RAdd(a, b) == Norm(a[1] * b[2] + b[1] * a[2], a[2] * b[2])
RSub(a, b) == Norm(a[1] * b[2] - b[1] * a[2], a[2] * b[2])
RMul(a, b) == Norm(a[1] * b[1], a[2] * b[2])
\* Python's a / b
TrueDiv(a, b) == IF b[1] = 0 THEN ZeroDivision ELSE Norm(a[1] * b[2], a[2] * b[1])
RLe(a, b) == a[1] * b[2] <= b[1] * a[2]
RLt(a, b) == a[1] * b[2] < b[1] * a[2]
RGe(a, b) == RLe(b, a)
RGt(a, b) == RLt(b, a)

RECURSIVE RPow(_, _)
RPow(a, k) == IF k = 0 THEN One ELSE RMul(a, RPow(a, k - 1))

\* Python's int(x) on a float: truncation toward zero
PyInt(a) ==
    IF a[2] = 0 THEN 0
    ELSE IF a[1] >= 0 THEN a[1] \div a[2] ELSE -((-a[1]) \div a[2])

\* mathematical floor
Floor(a) == a[1] \div a[2]

\* Python's round(x) on a float: nearest integer, ties to even
PyRound(a) ==
    LET f == Floor(a)
        twice == RSub(RMul(FromInt(2), a), FromInt(2 * f))   \* 2 * (a - f), in [0, 2)
    IN  IF RLt(twice, One) THEN f
        ELSE IF RGt(twice, One) THEN f + 1
        ELSE IF f % 2 = 0 THEN f ELSE f + 1

\* Python's s[:n] on a string
PySlicePrefix(s, n) ==
    IF n >= 0 THEN SubSeq(s, 1, IF n < Len(s) THEN n ELSE Len(s))
    ELSE SubSeq(s, 1, IF Len(s) + n > 0 THEN Len(s) + n ELSE 0)

\* Python's s[n:] on a string
PySliceSuffix(s, n) ==
    IF n >= 0 THEN SubSeq(s, (IF n < Len(s) THEN n ELSE Len(s)) + 1, Len(s))
    ELSE SubSeq(s, (IF Len(s) + n > 0 THEN Len(s) + n ELSE 0) + 1, Len(s))

(***************************************************************************)
(* Easing helpers.                                                          *)
(***************************************************************************)
_ease_out_cubic_flipped(t) == RSub(One, RPow(RSub(t, One), 3))
_ease_out_cubic_sq(t) == RSub(One, RPow(RSub(One, t), 2))
_ease_out_cubic(t) == RSub(One, RPow(RSub(One, t), 3))

_ease_out_quad_in(t) == RPow(RSub(One, t), 2)
_ease_out_quad(t) == RSub(One, RPow(RSub(One, t), 2))

_ease_linear(t) == t

_EASING == [cubic |-> "_ease_out_cubic", quad |-> "_ease_out_quad", linear |-> "_ease_linear"]

\* dict.get(key, default)
dict_get_linear(d, key, default) == IF key \in DOMAIN d THEN d[key] ELSE "_ease_linear"
dict_get(d, key, default) == IF key \in DOMAIN d THEN d[key] ELSE default

\* calling the function object that ease_fn holds
Apply(fn, t) ==
    CASE fn = "_ease_out_cubic" -> _ease_out_cubic(t)
      [] fn = "_ease_out_quad"  -> _ease_out_quad(t)
      [] fn = "_ease_linear"    -> _ease_linear(t)
      [] OTHER                  -> ZeroDivision

(***************************************************************************)
(* Typewriter helper.  A helper returns [exc, val]: exc is "none" and val   *)
(* the returned value, or exc names the exception raised.                   *)
(***************************************************************************)
Return(v) == [exc |-> "none", val |-> v]
Raise(e) == [exc |-> e, val |-> ""]

\* variants of _typewriter with one statement changed
_typewriter_no_start(full_text, p, start, end) ==
    IF full_text = "" THEN Return("")
    ELSE IF RGe(p, end) THEN Return(full_text)
    ELSE LET local == TrueDiv(RSub(p, start), RSub(end, start))
         IN  IF IsZeroDivision(local) THEN Raise("ZeroDivisionError")
             ELSE LET n_chars == PyInt(RMul(local, FromInt(Len(full_text))))
                  IN  Return(PySlicePrefix(full_text, n_chars))

_typewriter_start_first(full_text, p, start, end) ==
    IF full_text = "" THEN Return("")
    ELSE IF RLe(p, start) THEN Return("")
    ELSE IF RGe(p, end) THEN Return(full_text)
    ELSE LET local == TrueDiv(RSub(p, start), RSub(end, start))
         IN  IF IsZeroDivision(local) THEN Raise("ZeroDivisionError")
             ELSE LET n_chars == PyInt(RMul(local, FromInt(Len(full_text))))
                  IN  Return(PySlicePrefix(full_text, n_chars))

_typewriter_round(full_text, p, start, end) ==
    IF full_text = "" THEN Return("")
    ELSE IF RGe(p, end) THEN Return(full_text)
    ELSE IF RLe(p, start) THEN Return("")
    ELSE LET local == TrueDiv(RSub(p, start), RSub(end, start))
         IN  IF IsZeroDivision(local) THEN Raise("ZeroDivisionError")
             ELSE LET n_chars == PyRound(RMul(local, FromInt(Len(full_text))))
                  IN  Return(PySlicePrefix(full_text, n_chars))

_typewriter_suffix(full_text, p, start, end) ==
    IF full_text = "" THEN Return("")
    ELSE IF RGe(p, end) THEN Return(full_text)
    ELSE IF RLe(p, start) THEN Return("")
    ELSE LET local == TrueDiv(RSub(p, start), RSub(end, start))
         IN  IF IsZeroDivision(local) THEN Raise("ZeroDivisionError")
             ELSE LET n_chars == PyInt(RMul(local, FromInt(Len(full_text))))
                  IN  Return(PySliceSuffix(full_text, n_chars))

_typewriter_strict(full_text, p, start, end) ==
    IF full_text = "" THEN Return("")
    ELSE IF RGt(p, end) THEN Return(full_text)
    ELSE IF RLt(p, start) THEN Return("")
    ELSE LET local == TrueDiv(RSub(p, start), RSub(end, start))
         IN  IF IsZeroDivision(local) THEN Raise("ZeroDivisionError")
             ELSE LET n_chars == PyInt(RMul(local, FromInt(Len(full_text))))
                  IN  Return(PySlicePrefix(full_text, n_chars))

\* variant that reveals the characters still to come instead of those due
_typewriter_remaining(full_text, p, start, end) ==
    IF full_text = "" THEN Return("")
    ELSE IF RGe(p, end) THEN Return(full_text)
    ELSE IF RLe(p, start) THEN Return("")
    ELSE LET local == TrueDiv(RSub(p, start), RSub(end, start))
         IN  IF IsZeroDivision(local) THEN Raise("ZeroDivisionError")
             ELSE LET n_chars == PyInt(RMul(local, FromInt(Len(full_text))))
                  IN  Return(PySlicePrefix(full_text, Len(full_text) - n_chars))

_typewriter(full_text, p, start, end) ==
    IF full_text = "" THEN Return("")
    ELSE IF RGe(p, end) THEN Return(full_text)
    ELSE IF RLe(p, start) THEN Return("")
    ELSE LET local == TrueDiv(RSub(p, start), RSub(end, start))
         IN  IF IsZeroDivision(local) THEN Raise("ZeroDivisionError")
             ELSE LET n_chars == PyInt(RMul(local, FromInt(Len(full_text))))
                  IN  Return(PySlicePrefix(full_text, n_chars))

(***************************************************************************)
(* The first statement of every update closure:                             *)
(*   progress = 1.0 if frame >= total_anim else ease_fn(frame / total_anim) *)
(***************************************************************************)
\* variant without the hold-phase clamp
update_progress_no_clamp(f, n_anim, fn) ==
    LET t == TrueDiv(FromInt(f), FromInt(n_anim))
    IN  IF IsZeroDivision(t) THEN ZeroDivision ELSE Apply(fn, t)

\* variant with the hold-phase test written frame > total_anim
update_progress_strict(f, n_anim, fn) ==
    IF f > n_anim THEN One
    ELSE LET t == TrueDiv(FromInt(f), FromInt(n_anim))
         IN  IF IsZeroDivision(t) THEN ZeroDivision ELSE Apply(fn, t)

\* variant whose hold phase starts one frame early
update_progress_early_clamp(f, n_anim, fn) ==
    IF f + 1 >= n_anim THEN One
    ELSE LET t == TrueDiv(FromInt(f), FromInt(n_anim))
         IN  IF IsZeroDivision(t) THEN ZeroDivision ELSE Apply(fn, t)

update_progress(f, n_anim, fn) ==
    IF f >= n_anim THEN One
    ELSE LET t == TrueDiv(FromInt(f), FromInt(n_anim))
         IN  IF IsZeroDivision(t) THEN ZeroDivision ELSE Apply(fn, t)

\* total_anim = int(fps * duration)
compute_total_anim_round(fps, duration) == PyRound(RMul(FromInt(fps), duration))
compute_total_anim(fps, duration) == PyInt(RMul(FromInt(fps), duration))

(***************************************************************************)
(* Inputs of the chart calls.                                               *)
(***************************************************************************)
Easings == DOMAIN _EASING \cup {"bounce"}
FpsValues == 1..MaxFps
Durations == {Rat(k, DurUnit) : k \in 1..MaxDurUnits}
HoldValues == 0..MaxHold
Titles == {<<"HELLO", "Charts">>, <<"", "A">>}
\* <<tw_suptitle_start, tw_suptitle_end, tw_subtitle_start, tw_subtitle_end>>
TwTimings == {<<Zero, Rat(1, 2), Rat(1, 2), Rat(19, 20)>>,
              <<Zero, Zero, Zero, Zero>>,
              <<Rat(1, 4), Rat(3, 4), Rat(3, 4), Rat(1, 4)>>}
MeasureSets == {<<FromInt(4), FromInt(-2)>>, <<Rat(3, 2)>>}

NoCall == [fn |-> "none"]
NoArgs == [easing |-> "none"]
NoArtists == [suptitle |-> "", subtitle |-> ""]
NoMemo == [frame |-> -1, last |-> -1]
NoWorld == [files |-> {}, repo |-> {}, posts |-> <<>>, _logged_in |-> FALSE]

Init ==
    /\ pc = "idle"
    /\ chart = "none"
    /\ args = NoArgs
    /\ ease_fn = "none"
    /\ total_anim = 0
    /\ total_frames = 0
    /\ frame = -1
    /\ progress = Zero
    /\ artists = NoArtists
    /\ saved = 0
    /\ exc = "none"
    /\ call = NoCall
    /\ memo = NoMemo
    /\ world = NoWorld
    /\ trace = <<>>

\* the keyword arguments shared by the animated chart functions
CommonArgs(easing, fps, duration, titles, tw) ==
    [easing |-> easing, fps |-> fps, duration |-> duration,
     txt_suptitle |-> titles[1], txt_subtitle |-> titles[2],
     tw_suptitle_start |-> tw[1], tw_suptitle_end |-> tw[2],
     tw_subtitle_start |-> tw[3], tw_subtitle_end |-> tw[4]]

\* the body of a chart function from ease_fn = _EASING.get(...) up to the
\* construction of FuncAnimation(fig, update, frames=total_frames)
Setup(name, a, hold_frames, art) ==
    /\ chart' = name
    /\ args' = a
    /\ ease_fn' = dict_get(_EASING, a.easing, "_ease_out_cubic")
    /\ total_anim' = compute_total_anim(a.fps, a.duration)
    /\ total_frames' = compute_total_anim(a.fps, a.duration) + hold_frames
    /\ artists' = art
    /\ pc' = "saving"
    /\ UNCHANGED <<frame, progress, saved, exc, call, memo, world, trace>>

\* the two set_text(_typewriter(...)) calls of an update closure, in order
TypeTitles(p) ==
    LET sup == _typewriter(args.txt_suptitle, p, args.tw_suptitle_start, args.tw_suptitle_end)
        sub == _typewriter(args.txt_subtitle, p, args.tw_subtitle_start, args.tw_subtitle_end)
    IN  IF sup.exc # "none" THEN [exc |-> sup.exc, suptitle |-> artists.suptitle,
                                  subtitle |-> artists.subtitle]
        ELSE IF sub.exc # "none" THEN [exc |-> sub.exc, suptitle |-> sup.val,
                                       subtitle |-> artists.subtitle]
        ELSE [exc |-> "none", suptitle |-> sup.val, subtitle |-> sub.val]

\* anim.save calls update(frame) for frame = 0 .. total_frames - 1 in order and
\* grabs the figure after each call; an exception in update ends the call.
\* Pre is the artists' state after the statements that precede the progress
\* computation, drawn the state of the chart's own artists after the frame.
frame_progress == update_progress(frame + 1, total_anim, ease_fn)

Update(name, Pre, drawn) ==
    /\ pc = "saving"
    /\ chart = name
    /\ frame + 1 < total_frames
    /\ LET f == frame + 1
           p == frame_progress
           tt == TypeTitles(p)
       IN  /\ frame' = f
           /\ IF IsZeroDivision(p)
              THEN /\ pc' = "raised"
                   /\ exc' = "ZeroDivisionError"
                   /\ artists' = Pre
                   /\ UNCHANGED <<progress, saved>>
              ELSE IF tt.exc # "none"
              THEN /\ pc' = "raised"
                   /\ exc' = tt.exc
                   /\ progress' = p
                   /\ artists' = [Pre EXCEPT !.suptitle = tt.suptitle,
                                              !.subtitle = tt.subtitle]
                   /\ UNCHANGED saved
              ELSE /\ progress' = p
                   /\ artists' = [suptitle |-> tt.suptitle, subtitle |-> tt.subtitle]
                                 @@ drawn
                   /\ saved' = saved + 1
                   /\ UNCHANGED <<pc, exc>>
    /\ UNCHANGED <<chart, args, ease_fn, total_anim, total_frames, call, memo, world, trace>>

(***************************************************************************)
(* 1. eSingleBarChartAnimateInstagram                                       *)
(***************************************************************************)
eSingleBarChartAnimateInstagram ==
    /\ pc = "idle"
    /\ \E easing \in Easings, fps \in FpsValues, duration \in Durations,
       hold_frames \in HoldValues, titles \in Titles, tw \in TwTimings,
       measure_vals \in MeasureSets :
        Setup("eSingleBarChartAnimateInstagram",
              CommonArgs(easing, fps, duration, titles, tw) @@
                  [hold_frames |-> hold_frames, measure_vals |-> measure_vals,
                   num_divisor |-> One],
              hold_frames,
              [suptitle |-> "", subtitle |-> "",
               bars |-> [i \in DOMAIN measure_vals |-> Zero],
               val_anns |-> [i \in DOMAIN measure_vals |-> Zero]])

\* variant in which the widths are scaled by progress twice
BarDraw_squared(p) ==
    [bars |-> [i \in DOMAIN args.measure_vals |->
                 RMul(RMul(args.measure_vals[i], p), p)],
     val_anns |-> [i \in DOMAIN args.measure_vals |->
                     TrueDiv(RMul(args.measure_vals[i], p), args.num_divisor)]]

\* bar widths and the numbers shown in the value labels (before formatting)
BarDraw(p) ==
    [bars |-> [i \in DOMAIN args.measure_vals |-> RMul(args.measure_vals[i], p)],
     val_anns |-> [i \in DOMAIN args.measure_vals |->
                     TrueDiv(RMul(args.measure_vals[i], p), args.num_divisor)]]

eSingleBarChartAnimateInstagram_update ==
    Update("eSingleBarChartAnimateInstagram", artists, BarDraw(frame_progress))

(***************************************************************************)
(* 2. eMultiLineChartAnimateInstagram                                       *)
(***************************************************************************)
IntSeq(q) == [i \in DOMAIN q |-> FromInt(q[i])]

\* the x column and the measure columns of df_chart
LineDataSets ==
    {[x |-> IntSeq(<<0, 1, 2, 3, 4>>),
      cols |-> <<IntSeq(<<1, 3, 2, 5, 4>>), IntSeq(<<2, 2, 4, 1, 0>>)>>],
     [x |-> IntSeq(<<2020>>), cols |-> <<IntSeq(<<7>>)>>]}
\* pos_text (None is the empty list) and whether shade_between is given
LineOptions == {[pos_text |-> <<>>, shade |-> FALSE],
                [pos_text |-> <<-1, 2, 9>>, shade |-> TRUE]}

\* value_targets: one entry per in-range position of pos_text and column
RECURSIVE value_targets_for(_, _, _, _)
value_targets_for(pos_text, k, n_rows, n_cols) ==
    IF k > Len(pos_text) THEN <<>>
    ELSE LET pos == pos_text[k]
             q == IF pos >= 0 THEN pos ELSE n_rows + pos
             rest == value_targets_for(pos_text, k + 1, n_rows, n_cols)
         IN  IF 0 <= q /\ q < n_rows
             THEN [idx \in 1..n_cols |-> [pos |-> q, idx |-> idx - 1]] \o rest
             ELSE rest

eMultiLineChartAnimateInstagram ==
    /\ pc = "idle"
    /\ \E easing \in Easings, fps \in FpsValues, duration \in Durations,
          hold_frames \in HoldValues, titles \in Titles, tw \in TwTimings,
          data \in LineDataSets, opt \in LineOptions :
           LET n_rows == Len(data.x)
               value_targets == value_targets_for(opt.pos_text, 1, n_rows, Len(data.cols))
           IN  Setup("eMultiLineChartAnimateInstagram",
                     CommonArgs(easing, fps, duration, titles, tw) @@
                         [hold_frames |-> hold_frames, x_arr |-> data.x,
                          cols |-> data.cols, n_rows |-> n_rows,
                          value_targets |-> value_targets,
                          has_shade |-> opt.shade],
                     hold_frames,
                     [suptitle |-> "", subtitle |-> "",
                      lines |-> [li \in DOMAIN data.cols |-> [xs |-> <<>>, ys |-> <<>>]],
                      dots |-> [li \in DOMAIN data.cols |-> <<>>],
                      val_objs |-> [vi \in DOMAIN value_targets |-> FALSE],
                      shade_visible |-> FALSE])

\* reveal = progress * n_rows
line_reveal(p) == RMul(p, FromInt(args.n_rows))

\* variant whose tip is element floor(reveal) moved toward its successor
line_data_successor(p, y_all) ==
    LET reveal == line_reveal(p)
        full == PyInt(reveal)
        frac == RSub(reveal, FromInt(full))
        x_arr == args.x_arr
        n_rows == args.n_rows
    IN  IF full >= n_rows THEN [xs |-> x_arr, ys |-> y_all]
        ELSE IF full + 2 <= n_rows
        THEN [xs |-> Append(SubSeq(x_arr, 1, full),
                            RAdd(x_arr[full + 1],
                                 RMul(frac, RSub(x_arr[full + 2], x_arr[full + 1])))),
              ys |-> Append(SubSeq(y_all, 1, full),
                            RAdd(y_all[full + 1],
                                 RMul(frac, RSub(y_all[full + 2], y_all[full + 1]))))]
        ELSE [xs |-> SubSeq(x_arr, 1, full + 1), ys |-> SubSeq(y_all, 1, full + 1)]

\* variant whose fraction is measured from the element before the last
\* whole one
line_data_overshoot(p, y_all) ==
    LET reveal == line_reveal(p)
        full == PyInt(reveal)
        frac == RSub(reveal, FromInt(full - 1))
        x_arr == args.x_arr
        n_rows == args.n_rows
    IN  IF full >= n_rows THEN [xs |-> x_arr, ys |-> y_all]
        ELSE IF full = 0 THEN [xs |-> <<x_arr[1]>>, ys |-> <<y_all[1]>>]
        ELSE [xs |-> Append(SubSeq(x_arr, 1, full),
                            RAdd(x_arr[full], RMul(frac, RSub(x_arr[full + 1], x_arr[full])))),
              ys |-> Append(SubSeq(y_all, 1, full),
                            RAdd(y_all[full], RMul(frac, RSub(y_all[full + 1], y_all[full]))))]

\* the data given to line_objects[li].set_data for one column
line_data(p, y_all) ==
    LET reveal == line_reveal(p)
        full == PyInt(reveal)
        frac == RSub(reveal, FromInt(full))
        x_arr == args.x_arr
        n_rows == args.n_rows
    IN  IF full >= n_rows THEN [xs |-> x_arr, ys |-> y_all]
        ELSE IF full = 0 THEN [xs |-> <<x_arr[1]>>, ys |-> <<y_all[1]>>]
        ELSE IF full < n_rows
        THEN [xs |-> Append(SubSeq(x_arr, 1, full),
                            RAdd(x_arr[full], RMul(frac, RSub(x_arr[full + 1], x_arr[full])))),
              ys |-> Append(SubSeq(y_all, 1, full),
                            RAdd(y_all[full], RMul(frac, RSub(y_all[full + 1], y_all[full]))))]
        ELSE [xs |-> SubSeq(x_arr, 1, full), ys |-> SubSeq(y_all, 1, full)]

\* variant showing an annotation only while the cursor is within two
\* elements of its position
LineDraw_window(p) ==
    LET reveal == line_reveal(p)
        data == [li \in DOMAIN args.cols |-> line_data(p, args.cols[li])]
    IN  [lines |-> data,
         dots |-> [li \in DOMAIN args.cols |->
                     <<data[li].xs[Len(data[li].xs)], data[li].ys[Len(data[li].ys)]>>],
         val_objs |-> [vi \in DOMAIN args.value_targets |->
                         /\ RLt(FromInt(args.value_targets[vi].pos), RSub(reveal, Rat(1, 2)))
                         /\ RLt(reveal, FromInt(args.value_targets[vi].pos + 2))],
         shade_visible |-> IF args.has_shade THEN RGe(p, Rat(99, 100))
                           ELSE artists.shade_visible]

LineDraw(p) ==
    LET reveal == line_reveal(p)
        data == [li \in DOMAIN args.cols |-> line_data(p, args.cols[li])]
    IN  [lines |-> data,
         dots |-> [li \in DOMAIN args.cols |->
                     <<data[li].xs[Len(data[li].xs)], data[li].ys[Len(data[li].ys)]>>],
         val_objs |-> [vi \in DOMAIN args.value_targets |->
                         RLt(FromInt(args.value_targets[vi].pos), RSub(reveal, Rat(1, 2)))],
         shade_visible |-> IF args.has_shade THEN RGe(p, Rat(99, 100))
                           ELSE artists.shade_visible]

eMultiLineChartAnimateInstagram_update ==
    Update("eMultiLineChartAnimateInstagram", artists, LineDraw(frame_progress))

(***************************************************************************)
(* 3. eStemChartAnimateInstagram                                            *)
(***************************************************************************)
\* col_measure_b is None (an empty series here) or a second series
StemSeriesB == {<<>>, <<FromInt(1), FromInt(5)>>}
StemSeriesA == {<<FromInt(4), FromInt(-2)>>}

eStemChartAnimateInstagram ==
    /\ pc = "idle"
    /\ \E easing \in Easings, fps \in FpsValues, duration \in Durations,
       hold_frames \in HoldValues, titles \in Titles, tw \in TwTimings,
       a \in StemSeriesA, b \in StemSeriesB :
        Setup("eStemChartAnimateInstagram",
              CommonArgs(easing, fps, duration, titles, tw) @@
                  [hold_frames |-> hold_frames, num_divisor |-> One,
                   y_a_final |-> [i \in DOMAIN a |-> TrueDiv(a[i], One)],
                   y_b_final |-> [i \in DOMAIN b |-> TrueDiv(b[i], One)]],
              hold_frames,
              [suptitle |-> "", subtitle |-> "",
               stem_a |-> [i \in DOMAIN a |-> Zero],
               stem_b |-> [i \in DOMAIN b |-> Zero]])

\* upper end of each stem (also the marker's y and the label's value)
StemDraw(p) ==
    [stem_a |-> [i \in DOMAIN args.y_a_final |-> RMul(args.y_a_final[i], p)],
     stem_b |-> [i \in DOMAIN args.y_b_final |-> RMul(args.y_b_final[i], p)]]

eStemChartAnimateInstagram_update ==
    Update("eStemChartAnimateInstagram", artists, StemDraw(frame_progress))

(***************************************************************************)
(* 4. eDonutChartAnimateInstagram                                           *)
(***************************************************************************)
DonutValues == {IntSeq(<<50, 30, 20>>), IntSeq(<<1, 399>>)}
\* col_label given or None; show_pct and autopct_outer
DonutOptions == {[has_labels |-> TRUE, show_pct |-> TRUE],
                 [has_labels |-> FALSE, show_pct |-> FALSE]}

RECURSIVE RSum(_, _)
RSum(q, k) == IF k = 0 THEN Zero ELSE RAdd(q[k], RSum(q, k - 1))

eDonutChartAnimateInstagram ==
    /\ pc = "idle"
    /\ \E easing \in Easings, fps \in FpsValues, duration \in Durations,
          hold_frames \in HoldValues, titles \in Titles, tw \in TwTimings,
          vals \in DonutValues, opt \in DonutOptions :
           LET values == [i \in DOMAIN vals |-> TrueDiv(vals[i], One)]
               total == RSum(values, Len(values))
               fractions == [i \in DOMAIN values |-> TrueDiv(values[i], total)]
           IN  Setup("eDonutChartAnimateInstagram",
                     CommonArgs(easing, fps, duration, titles, tw) @@
                         [hold_frames |-> hold_frames,
                          angles_deg |-> [i \in DOMAIN values |->
                                            RMul(fractions[i], FromInt(360))],
                          start_angle |-> FromInt(90),
                          n_wedges |-> Len(values),
                          has_labels |-> opt.has_labels,
                          show_pct |-> opt.show_pct],
                     hold_frames,
                     [suptitle |-> "", subtitle |-> "", wedges |-> <<>>])

\* variant in which a skipped wedge leaves current_start where it is
RECURSIVE donut_loop_no_advance(_, _, _, _)
donut_loop_no_advance(i, current_start, drawn, p) ==
    IF i >= args.n_wedges THEN drawn
    ELSE LET wa == RMul(args.angles_deg[i + 1], p)
         IN  IF RLt(wa, Rat(1, 2))
             THEN donut_loop_no_advance(i + 1, current_start, drawn, p)
             ELSE donut_loop_no_advance(i + 1, RSub(current_start, wa),
                             Append(drawn,
                                    [i |-> i,
                                     theta1 |-> RSub(current_start, wa),
                                     theta2 |-> current_start,
                                     label |-> args.has_labels /\ RGt(p, Rat(1, 2)),
                                     pct |-> args.show_pct /\ RGt(p, Rat(3, 10))]),
                             p)

\* the loop over the wedges; i is the 0-based index of the source
RECURSIVE donut_loop(_, _, _, _)
donut_loop(i, current_start, drawn, p) ==
    IF i >= args.n_wedges THEN drawn
    ELSE LET wa == RMul(args.angles_deg[i + 1], p)
         IN  IF RLt(wa, Rat(1, 2))
             THEN donut_loop(i + 1, RSub(current_start, wa), drawn, p)
             ELSE donut_loop(i + 1, RSub(current_start, wa),
                             Append(drawn,
                                    [i |-> i,
                                     theta1 |-> RSub(current_start, wa),
                                     theta2 |-> current_start,
                                     label |-> args.has_labels /\ RGt(p, Rat(1, 2)),
                                     pct |-> args.show_pct /\ RGt(p, Rat(3, 10))]),
                             p)

DonutDraw(p) == [wedges |-> donut_loop(0, args.start_angle, <<>>, p)]

\* update starts with ax.clear(), which removes the wedges of the last frame
eDonutChartAnimateInstagram_update ==
    Update("eDonutChartAnimateInstagram", [artists EXCEPT !.wedges = <<>>], DonutDraw(frame_progress))

(***************************************************************************)
(* 5. eCoverTileAnimateInstagram                                            *)
(***************************************************************************)
HoldDurations == {Rat(k, DurUnit) : k \in 0..(MaxHold + 1)}

eCoverTileAnimateInstagram ==
    /\ pc = "idle"
    /\ \E easing \in Easings, fps \in FpsValues, duration \in Durations,
       hold_duration \in HoldDurations, titles \in Titles, tw \in TwTimings,
       show_accent_line \in BOOLEAN :
        Setup("eCoverTileAnimateInstagram",
              CommonArgs(easing, fps, duration, titles, tw) @@
                  [hold_duration |-> hold_duration,
                   show_accent_line |-> show_accent_line,
                   accent_line_length |-> Rat(3, 20),
                   accent_line_start |-> Rat(2, 5),
                   accent_line_end |-> Rat(13, 20)],
              PyInt(RMul(FromInt(fps), hold_duration)),
              [suptitle |-> "", subtitle |-> "", accent_line |-> <<>>])

\* variant that leaves the accent line as it is before accent_line_start
CoverDraw_sticky(p) ==
    [accent_line |->
        IF ~args.show_accent_line THEN artists.accent_line
        ELSE IF RLe(p, args.accent_line_start) THEN artists.accent_line
        ELSE IF RGe(p, args.accent_line_end) THEN
            LET half == TrueDiv(args.accent_line_length, FromInt(2))
            IN  <<RSub(Rat(1, 2), half), RAdd(Rat(1, 2), half)>>
        ELSE
            LET t == TrueDiv(RSub(p, args.accent_line_start),
                             RSub(args.accent_line_end, args.accent_line_start))
                cur_half == RMul(TrueDiv(args.accent_line_length, FromInt(2)), t)
            IN  <<RSub(Rat(1, 2), cur_half), RAdd(Rat(1, 2), cur_half)>>]

\* x data of the accent line: <<>> or <<0.5 - half, 0.5 + half>>
CoverDraw(p) ==
    [accent_line |->
        IF ~args.show_accent_line THEN artists.accent_line
        ELSE IF RLe(p, args.accent_line_start) THEN <<>>
        ELSE IF RGe(p, args.accent_line_end) THEN
            LET half == TrueDiv(args.accent_line_length, FromInt(2))
            IN  <<RSub(Rat(1, 2), half), RAdd(Rat(1, 2), half)>>
        ELSE
            LET t == TrueDiv(RSub(p, args.accent_line_start),
                             RSub(args.accent_line_end, args.accent_line_start))
                cur_half == RMul(TrueDiv(args.accent_line_length, FromInt(2)), t)
            IN  <<RSub(Rat(1, 2), cur_half), RAdd(Rat(1, 2), cur_half)>>]

eCoverTileAnimateInstagram_update ==
    Update("eCoverTileAnimateInstagram", artists, CoverDraw(frame_progress))

\* anim.save returns after the last frame; the chart function returns (fig, ax)
save_returns ==
    /\ pc = "saving"
    /\ frame + 1 >= total_frames
    /\ pc' = "saved"
    /\ UNCHANGED <<chart, args, ease_fn, total_anim, total_frames, frame,
                   progress, artists, saved, exc, call, memo, world, trace>>

Next ==
    \/ eSingleBarChartAnimateInstagram
    \/ eSingleBarChartAnimateInstagram_update
    \/ eMultiLineChartAnimateInstagram
    \/ eMultiLineChartAnimateInstagram_update
    \/ eStemChartAnimateInstagram
    \/ eStemChartAnimateInstagram_update
    \/ eDonutChartAnimateInstagram
    \/ eDonutChartAnimateInstagram_update
    \/ eCoverTileAnimateInstagram
    \/ eCoverTileAnimateInstagram_update
    \/ save_returns

Spec == Init /\ [][Next]_vars

(***************************************************************************)
(* update(frame) called out of sequence.  FuncAnimation passes update any   *)
(* element of range(total_frames): frame 0 is drawn once more by            *)
(* _init_draw, and a repeating or re-saved animation restarts the range.    *)
(* memo remembers the artists left by one earlier update(frame) and the     *)
(* frames drawn just before it and just before the current one.             *)
(***************************************************************************)
ReplayInputs ==
    /\ args.easing = "quad"
    /\ args.txt_suptitle = "HELLO"
    /\ args.tw_suptitle_end = Rat(1, 2)
    /\ total_frames <= MaxReplayFrames

progress_at(f) == update_progress(f, total_anim, ease_fn)

Replay(name, Pre, f, p, drawn) ==
    /\ pc = "saving"
    /\ chart = name
    /\ LET tt == TypeTitles(p)
       IN  /\ frame' = f
           /\ IF IsZeroDivision(p)
              THEN /\ pc' = "raised"
                   /\ exc' = "ZeroDivisionError"
                   /\ artists' = Pre
                   /\ UNCHANGED <<progress, saved, memo>>
              ELSE IF tt.exc # "none"
              THEN /\ pc' = "raised"
                   /\ exc' = tt.exc
                   /\ progress' = p
                   /\ artists' = [Pre EXCEPT !.suptitle = tt.suptitle,
                                              !.subtitle = tt.subtitle]
                   /\ UNCHANGED <<saved, memo>>
              ELSE /\ progress' = p
                   /\ artists' = [suptitle |-> tt.suptitle, subtitle |-> tt.subtitle]
                                 @@ drawn
                   /\ UNCHANGED saved
                   /\ \E keep \in BOOLEAN :
                         memo' = IF keep /\ memo.frame = -1
                                 THEN [frame |-> f, before |-> frame, last |-> frame,
                                       artists |-> artists']
                                 ELSE [memo EXCEPT !.last = frame]
                   /\ UNCHANGED <<pc, exc>>
    /\ UNCHANGED <<chart, args, ease_fn, total_anim, total_frames, call, world, trace>>

eSingleBarChartAnimateInstagram_replay ==
    \E f \in 0..(total_frames - 1) :
        Replay("eSingleBarChartAnimateInstagram", artists, f, progress_at(f),
               BarDraw(progress_at(f)))

eMultiLineChartAnimateInstagram_replay ==
    \E f \in 0..(total_frames - 1) :
        Replay("eMultiLineChartAnimateInstagram", artists, f, progress_at(f),
               LineDraw(progress_at(f)))

eStemChartAnimateInstagram_replay ==
    \E f \in 0..(total_frames - 1) :
        Replay("eStemChartAnimateInstagram", artists, f, progress_at(f),
               StemDraw(progress_at(f)))

eDonutChartAnimateInstagram_replay ==
    \E f \in 0..(total_frames - 1) :
        Replay("eDonutChartAnimateInstagram", [artists EXCEPT !.wedges = <<>>], f,
               progress_at(f), DonutDraw(progress_at(f)))

eCoverTileAnimateInstagram_replay ==
    \E f \in 0..(total_frames - 1) :
        Replay("eCoverTileAnimateInstagram", artists, f, progress_at(f),
               CoverDraw(progress_at(f)))

NextReplay ==
    \/ eSingleBarChartAnimateInstagram /\ ReplayInputs'
    \/ eSingleBarChartAnimateInstagram_replay
    \/ eMultiLineChartAnimateInstagram /\ ReplayInputs'
    \/ eMultiLineChartAnimateInstagram_replay
    \/ eStemChartAnimateInstagram /\ ReplayInputs'
    \/ eStemChartAnimateInstagram_replay
    \/ eDonutChartAnimateInstagram /\ ReplayInputs'
    \/ eDonutChartAnimateInstagram_replay
    \/ eCoverTileAnimateInstagram /\ ReplayInputs'
    \/ eCoverTileAnimateInstagram_replay

SpecReplay == Init /\ [][NextReplay]_vars

(***************************************************************************)
(* Direct calls of the helpers, inputs drawn from bounded sets.             *)
(***************************************************************************)
UnitInterval == UNION {{Rat(k, d) : k \in 0..d} : d \in 1..MaxDen}
TwTexts == {"", "HELLO", "Espresso"}
TwBounds == {Zero, Rat(1, 4), Rat(1, 2), Rat(19, 20), One}

Idle ==
    /\ pc = "idle"
    /\ chart = "none"
    /\ args = NoArgs
    /\ ease_fn = "none"
    /\ total_anim = 0
    /\ total_frames = 0
    /\ frame = -1
    /\ progress = Zero
    /\ artists = NoArtists
    /\ saved = 0
    /\ exc = "none"
    /\ memo = NoMemo
    /\ trace = <<>>

InitEase ==
    /\ Idle
    /\ world = NoWorld
    /\ call \in {[fn |-> "ease_fn", easing |-> e, t |-> t, done |-> FALSE, out |-> Zero] :
                    e \in Easings, t \in UnitInterval}

\* ease_fn = _EASING.get(easing, _ease_out_cubic); ease_fn(t)
ease_call ==
    /\ call.fn = "ease_fn"
    /\ ~call.done
    /\ call' = [call EXCEPT !.done = TRUE,
                            !.out = Apply(dict_get(_EASING, call.easing, "_ease_out_cubic"),
                                          call.t)]
    /\ UNCHANGED <<pc, chart, args, ease_fn, total_anim, total_frames, frame,
                   progress, artists, saved, exc, memo, world, trace>>

SpecEase == InitEase /\ [][ease_call]_vars

InitTW ==
    /\ Idle
    /\ world = NoWorld
    /\ call \in {[fn |-> "_typewriter", full_text |-> txt, progress |-> p,
                  start |-> s, end |-> e, done |-> FALSE, out |-> Return("")] :
                    txt \in TwTexts, p \in UnitInterval, s \in TwBounds, e \in TwBounds}

typewriter_call ==
    /\ call.fn = "_typewriter"
    /\ ~call.done
    /\ call' = [call EXCEPT !.done = TRUE,
                            !.out = _typewriter(call.full_text, call.progress,
                                                call.start, call.end)]
    /\ UNCHANGED <<pc, chart, args, ease_fn, total_anim, total_frames, frame,
                   progress, artists, saved, exc, memo, world, trace>>

SpecTW == InitTW /\ [][typewriter_call]_vars

(***************************************************************************)
(* Media pipeline: functions that run ffprobe and ffmpeg.                   *)
(*                                                                          *)
(* The body of a function is a chain of steps over s = [world, trace, out]. *)
(* Every subprocess.run and every HTTP request appends one entry to trace;  *)
(* env[k] tells whether the k-th of them succeeds (exit status 0, r.ok).   *)
(* The stderr of a process and the body of a response are named by the     *)
(* position of their entry in trace.                                        *)
(***************************************************************************)
Environments == [1..MaxExternal -> BOOLEAN]
Started == [exc |-> "none", val |-> "pending"]
RaiseWith(e, carried) == [exc |-> e, val |-> carried]

Ok(s) == s.out.exc = "none"
Fail(s, e, carried) == [s EXCEPT !.out = RaiseWith(e, carried)]
Done(s, v) == [s EXCEPT !.out = Return(v)]
Last(s) == s.trace[Len(s.trace)]
Stderr(s) == <<"stderr", Len(s.trace)>>
isfile(s, f) == f \in s.world.files

\* subprocess.run(cmd, capture_output=True, text=True); a tool given a file
\* that does not exist exits non-zero; ffmpeg that exits 0 has written output
subprocess_run(s, env, tool, mode, inputs, output) ==
    LET k == Len(s.trace) + 1
        ok == env[k] /\ inputs \subseteq s.world.files
    IN  [s EXCEPT !.trace = Append(@, [kind |-> "proc", tool |-> tool, mode |-> mode,
                                       ok |-> ok]),
                  !.world.files = IF ok /\ output # "None" THEN @ \cup {output} ELSE @]

\* variant of eGetDuration that does not look at the return code
eGetDuration_unchecked(s, env, filepath) ==
    LET r == subprocess_run(s, env, "ffprobe", "show_format", {filepath}, "None")
    IN  Done(r, "duration")

eGetDuration(s, env, filepath) ==
    LET r == subprocess_run(s, env, "ffprobe", "show_format", {filepath}, "None")
    IN  IF ~Last(r).ok THEN Fail(r, "RuntimeError", Stderr(r))
        ELSE Done(r, "duration")

\* variant of eAddVoiceover without the os.path.isfile loop
eAddVoiceover_unchecked(s, env, video_file, voiceover_file, output_file, vo_fade_out) ==
    LET s1 == eGetDuration(s, env, video_file)
        s2 == IF vo_fade_out > 0 THEN eGetDuration(s1, env, voiceover_file) ELSE s1
        r == subprocess_run(s2, env, "ffmpeg", "mux",
                            {video_file, voiceover_file}, output_file)
    IN  IF ~Ok(s1) THEN s1
        ELSE IF ~Ok(s2) THEN s2
        ELSE IF ~Last(r).ok THEN Fail(r, "RuntimeError", Stderr(r))
        ELSE Done(r, output_file)

eAddVoiceover(s, env, video_file, voiceover_file, output_file, vo_fade_out) ==
    IF ~isfile(s, video_file) \/ ~isfile(s, voiceover_file)
    THEN Fail(s, "FileNotFoundError", "File not found")
    ELSE LET s1 == eGetDuration(s, env, video_file)
             s2 == IF vo_fade_out > 0 THEN eGetDuration(s1, env, voiceover_file) ELSE s1
             r == subprocess_run(s2, env, "ffmpeg", "mux",
                                 {video_file, voiceover_file}, output_file)
         IN  IF ~Ok(s1) THEN s1
             ELSE IF ~Ok(s2) THEN s2
             ELSE IF ~Last(r).ok THEN Fail(r, "RuntimeError", Stderr(r))
             ELSE Done(r, output_file)

eAddMusic(s, env, video_file, music_file, output_file) ==
    IF ~isfile(s, video_file) \/ ~isfile(s, music_file)
    THEN Fail(s, "FileNotFoundError", "File not found")
    ELSE LET s1 == eGetDuration(s, env, video_file)
             r == subprocess_run(s1, env, "ffmpeg", "mux",
                                 {video_file, music_file}, output_file)
         IN  IF ~Ok(s1) THEN s1
             ELSE IF ~Last(r).ok THEN Fail(r, "RuntimeError", Stderr(r))
             ELSE Done(r, output_file)

\* sep.join(parts)
RECURSIVE join(_, _)
join(sep, parts) ==
    IF parts = <<>> THEN ""
    ELSE IF Len(parts) = 1 THEN parts[1]
    ELSE parts[1] \o sep \o join(sep, Tail(parts))

\* str.strip(chars): leading and trailing characters of the set removed
RECURSIVE lstrip(_, _)
lstrip(str, chars) ==
    IF Len(str) > 0 /\ SubSeq(str, 1, 1) \in chars
    THEN lstrip(SubSeq(str, 2, Len(str)), chars) ELSE str
RECURSIVE rstrip(_, _)
rstrip(str, chars) ==
    IF Len(str) > 0 /\ SubSeq(str, Len(str), Len(str)) \in chars
    THEN rstrip(SubSeq(str, 1, Len(str) - 1), chars) ELSE str
strip(str, chars) == rstrip(lstrip(str, chars), chars)

\* str.rsplit(sep, 1)[0]: what precedes the last occurrence of sep
rsplit_head(str, sep) ==
    LET hits == {i \in 1..(Len(str) - Len(sep) + 1) :
                    SubSeq(str, i, i + Len(sep) - 1) = sep}
    IN  IF hits = {} THEN str
        ELSE SubSeq(str, 1, (CHOOSE i \in hits : \A j \in hits : j <= i) - 1)

\* the filter chains with the other keyword arguments at their defaults;
\* <vid_dur> and <fo_start> stand for the formatted durations
vo_chain(vo_fade_out) ==
    join(",", <<"volume=1.0", "adelay=500|500">> \o
              (IF vo_fade_out > 0
               THEN <<"afade=t=out:st=<fo_start>:d=" \o ToString(vo_fade_out)>>
               ELSE <<>>))
mu_chain ==
    join(",", <<"volume=0.12", "afade=t=in:st=0:d=1.0", "afade=t=out:st=<fo_start>:d=2.0">>)

\* variant that always reads the music from input 2
ffmpeg_cmd_music_second(video_file, voiceover_file, vo_fade_out, music_file) ==
    LET has_vo == voiceover_file # "None"
        has_mu == music_file # "None"
        inputs == <<"-i", video_file>>
                  \o (IF has_vo THEN <<"-i", voiceover_file>> ELSE <<>>)
                  \o (IF has_mu THEN <<"-stream_loop", "-1", "-i", music_file>> ELSE <<>>)
        vo_parts == IF has_vo
                    THEN <<"[1:a]" \o vo_chain(vo_fade_out) \o ",apad=whole_dur=<vid_dur>[vo]">>
                    ELSE <<>>
        mu_parts == IF has_mu
                    THEN <<"[2:a]" \o mu_chain
                           \o ",atrim=0:<vid_dur>,asetpts=PTS-STARTPTS[music]">>
                    ELSE <<>>
        parts == vo_parts \o mu_parts
        filter_parts ==
            IF has_vo /\ has_mu
            THEN Append(parts, "[vo][music]amix=inputs=2:duration=first:dropout_transition=0[aout]")
            ELSE [parts EXCEPT ![Len(parts)] =
                     rsplit_head(@, IF has_vo THEN "[vo]" ELSE "[music]") \o "[aout]"]
    IN  [inputs |-> inputs, filter_complex |-> join(";", filter_parts)]

\* inputs and filter_complex of the ffmpeg command of eAddAudio
ffmpeg_cmd(video_file, voiceover_file, vo_fade_out, music_file) ==
    LET inputs0 == <<"-i", video_file>>
        input_idx0 == 1
        has_vo == voiceover_file # "None"
        has_mu == music_file # "None"
        \* voiceover stream
        inputs1 == IF has_vo THEN inputs0 \o <<"-i", voiceover_file>> ELSE inputs0
        vo_idx == input_idx0
        input_idx1 == IF has_vo THEN input_idx0 + 1 ELSE input_idx0
        filter_parts1 ==
            IF has_vo
            THEN <<"[" \o ToString(vo_idx) \o ":a]" \o vo_chain(vo_fade_out)
                   \o ",apad=whole_dur=<vid_dur>[vo]">>
            ELSE <<>>
        mix_inputs1 == IF has_vo THEN <<"[vo]">> ELSE <<>>
        \* music stream (music_loop is True)
        inputs2 == IF has_mu THEN inputs1 \o <<"-stream_loop", "-1", "-i", music_file>>
                   ELSE inputs1
        mu_idx == input_idx1
        filter_parts2 ==
            IF has_mu
            THEN Append(filter_parts1,
                        "[" \o ToString(mu_idx) \o ":a]" \o mu_chain
                        \o ",atrim=0:<vid_dur>,asetpts=PTS-STARTPTS[music]")
            ELSE filter_parts1
        mix_inputs2 == IF has_mu THEN Append(mix_inputs1, "[music]") ELSE mix_inputs1
        \* mix
        filter_parts3 ==
            IF Len(mix_inputs2) = 2
            THEN Append(filter_parts2,
                        join("", mix_inputs2)
                        \o "amix=inputs=2:duration=first:dropout_transition=0[aout]")
            ELSE LET single_tag == strip(mix_inputs2[1], {"[", "]"})
                 IN  [filter_parts2 EXCEPT ![Len(filter_parts2)] =
                         rsplit_head(@, "[" \o single_tag \o "]") \o "[aout]"]
    IN  [inputs |-> inputs2, filter_complex |-> join(";", filter_parts3)]

\* the command line kept with the trace entry of the run
with_cmd(r, cmd) == [r EXCEPT !.trace[Len(r.trace)] = @ @@ [cmd |-> cmd]]

eAddAudio(s, env, video_file, output_file, voiceover_file, vo_fade_out, music_file) ==
    IF voiceover_file = "None" /\ music_file = "None"
    THEN Fail(s, "ValueError", "Provide at least one of voiceover_file or music_file.")
    ELSE IF ~isfile(s, video_file) THEN Fail(s, "FileNotFoundError", "Video not found")
    ELSE LET s1 == eGetDuration(s, env, video_file)
             s2 == IF voiceover_file # "None" /\ vo_fade_out > 0
                   THEN eGetDuration(s1, env, voiceover_file) ELSE s1
             r == with_cmd(subprocess_run(s2, env, "ffmpeg", "mux",
                                          {video_file, voiceover_file, music_file} \ {"None"},
                                          output_file),
                           ffmpeg_cmd(video_file, voiceover_file, vo_fade_out, music_file))
             s3 == eGetDuration(r, env, output_file)
         IN  IF ~Ok(s1) THEN s1
             ELSE IF voiceover_file # "None" /\ ~isfile(s1, voiceover_file)
             THEN Fail(s1, "FileNotFoundError", "Voiceover not found")
             ELSE IF ~Ok(s2) THEN s2
             ELSE IF music_file # "None" /\ ~isfile(s2, music_file)
             THEN Fail(s2, "FileNotFoundError", "Music not found")
             ELSE IF ~Last(r).ok THEN Fail(r, "RuntimeError", Stderr(r))
             ELSE IF ~Ok(s3) THEN s3
             ELSE Done(s3, output_file)

\* variant of eConcatenateMP4 without the re-encoding fallback
eConcatenateMP4_copy_only(s, env, input_files, output_file) ==
    IF Len(input_files) < 2
    THEN Fail(s, "ValueError", "Need at least 2 files to concatenate.")
    ELSE IF \E i \in DOMAIN input_files : ~isfile(s, input_files[i])
    THEN Fail(s, "FileNotFoundError", "File not found")
    ELSE LET ins == {input_files[i] : i \in DOMAIN input_files}
             s0 == [s EXCEPT !.world.files = @ \cup {"list_path"}]
             r1 == subprocess_run(s0, env, "ffmpeg", "copy", ins \cup {"list_path"},
                                  output_file)
             fin == [r1 EXCEPT !.world.files = @ \ {"list_path"}]
         IN  IF ~Last(r1).ok THEN Fail(fin, "RuntimeError", Stderr(r1))
             ELSE Done(fin, output_file)

\* variant of eConcatenateMP4 that unlinks the list after the try block
\* instead of in a finally clause
eConcatenateMP4_unlink_after(s, env, input_files, output_file) ==
    IF Len(input_files) < 2
    THEN Fail(s, "ValueError", "Need at least 2 files to concatenate.")
    ELSE IF \E i \in DOMAIN input_files : ~isfile(s, input_files[i])
    THEN Fail(s, "FileNotFoundError", "File not found")
    ELSE LET ins == {input_files[i] : i \in DOMAIN input_files}
             s0 == [s EXCEPT !.world.files = @ \cup {"list_path"}]
             r1 == subprocess_run(s0, env, "ffmpeg", "copy", ins \cup {"list_path"},
                                  output_file)
             r2 == IF Last(r1).ok THEN r1
                   ELSE subprocess_run(r1, env, "ffmpeg", "libx264",
                                       ins \cup {"list_path"}, output_file)
             fin == [r2 EXCEPT !.world.files = @ \ {"list_path"}]
         IN  IF ~Last(r2).ok THEN Fail(r2, "RuntimeError", Stderr(r2))
             ELSE Done(fin, output_file)

eConcatenateMP4(s, env, input_files, output_file) ==
    IF Len(input_files) < 2
    THEN Fail(s, "ValueError", "Need at least 2 files to concatenate.")
    ELSE IF \E i \in DOMAIN input_files : ~isfile(s, input_files[i])
    THEN Fail(s, "FileNotFoundError", "File not found")
    ELSE LET ins == {input_files[i] : i \in DOMAIN input_files}
             s0 == [s EXCEPT !.world.files = @ \cup {"list_path"}]
             r1 == subprocess_run(s0, env, "ffmpeg", "copy", ins \cup {"list_path"},
                                  output_file)
             r2 == IF Last(r1).ok THEN r1
                   ELSE subprocess_run(r1, env, "ffmpeg", "libx264",
                                       ins \cup {"list_path"}, output_file)
             fin == [r2 EXCEPT !.world.files = @ \ {"list_path"}]
         IN  IF ~Last(r2).ok THEN Fail(fin, "RuntimeError", Stderr(r2))
             ELSE Done(fin, output_file)

\* a call of a pipeline function from the idle interpreter: the function
\* runs to its return or raise
MediaFiles == {"video.mp4", "voiceover.mp3", "music.mp3", "intro.mp4"}
Entry == [world |-> world, trace |-> trace, out |-> Started]

Invoke(fn, a, s) ==
    /\ call' = [fn |-> fn, args |-> a, out |-> s.out]
    /\ world' = s.world
    /\ trace' = s.trace
    /\ UNCHANGED <<pc, chart, args, ease_fn, total_anim, total_frames, frame,
                   progress, artists, saved, exc, memo>>

eGetDuration_call ==
    /\ call = NoCall
    /\ \E env \in Environments, filepath \in MediaFiles :
          Invoke("eGetDuration", <<filepath>>, eGetDuration(Entry, env, filepath))

eAddVoiceover_call ==
    /\ call = NoCall
    /\ \E env \in Environments, vo_fade_out \in {0, 1} :
          Invoke("eAddVoiceover", <<vo_fade_out>>,
                 eAddVoiceover(Entry, env, "video.mp4", "voiceover.mp3",
                               "espresso_with_vo.mp4", vo_fade_out))

eAddMusic_call ==
    /\ call = NoCall
    /\ \E env \in Environments :
          Invoke("eAddMusic", <<>>,
                 eAddMusic(Entry, env, "video.mp4", "music.mp3",
                           "espresso_with_music.mp4"))

eAddAudio_call ==
    /\ call = NoCall
    /\ \E env \in Environments, voiceover_file \in {"None", "voiceover.mp3"},
          music_file \in {"None", "music.mp3"}, vo_fade_out \in {0, 1} :
          Invoke("eAddAudio", <<voiceover_file, vo_fade_out, music_file>>,
                 eAddAudio(Entry, env, "video.mp4", "espresso_final.mp4",
                           voiceover_file, vo_fade_out, music_file))

eConcatenateMP4_call ==
    /\ call = NoCall
    /\ \E env \in Environments,
          input_files \in {<<"video.mp4">>, <<"intro.mp4", "video.mp4">>} :
          Invoke("eConcatenateMP4", <<input_files>>,
                 eConcatenateMP4(Entry, env, input_files, "espresso_reel.mp4"))

(***************************************************************************)
(* HTTP wrappers: FRED, ElevenLabs, GitHubUploader, SubstackPublisher.      *)
(***************************************************************************)
\* requests.get / post / put: one entry of trace, ok is r.ok (status 200 for
\* the ElevenLabs calls)
requests(s, env, method, endpoint) ==
    [s EXCEPT !.trace = Append(@, [kind |-> "http", tool |-> method, mode |-> endpoint,
                                   ok |-> env[Len(@) + 1]])]
\* what an exception message can hold of the last response
Text(s) == <<"text", Len(s.trace)>>
Text500(s) == <<"text[:500]", Len(s.trace)>>
JsonMessage(s) == <<"json.message", Len(s.trace)>>
StatusLine(s) == <<"status", Len(s.trace)>>
\* open(output_file, "wb").write(...)
write_file(s, f) == [s EXCEPT !.world.files = @ \cup {f}]

fetch_fred_series(s, env) ==
    LET r == requests(s, env, "GET", "fred/series/observations")
    IN  IF Last(r).ok THEN Done(r, "df")
        ELSE Fail(r, "KeyError", "observations")

eListVoices(s, env) ==
    LET r == requests(s, env, "GET", "v1/voices")
    IN  IF ~Last(r).ok THEN Fail(r, "HTTPError", StatusLine(r))
        ELSE Done(r, "voices")

\* VOICES maps a name to a voice id; MUSIC_PRESETS is given by its keys
VOICES ==
    [adam |-> "pNInz6obpgDQGcFmaJgB", rachel |-> "21m00Tcm4TlvDq8ikWAM",
     clyde |-> "2EiwWnXFnvU5JabPnv8n", domi |-> "AZnzlk1XvdvUeBnXmlld",
     bella |-> "EXAVITQu4vr4xnSDxMaL", antoni |-> "ErXwobaYiN019PkySvjV",
     josh |-> "TxGEqnHWrfWFTfGW9XjX", sam |-> "yoZ06aMxZJJ28mfd3POQ",
     george |-> "JBFqnCBsd6RMkjVDRZzb"]
\* str.lower() on the voice names used as inputs
lower(name) == IF name = "George" THEN "george" ELSE name
\* the request to text-to-speech/{voice_id}
tts_request(s, env, voice_id) ==
    LET r == requests(s, env, "POST", "v1/text-to-speech")
    IN  [r EXCEPT !.trace[Len(r.trace)] = @ @@ [voice_id |-> voice_id]]
MUSIC_PRESETS == {"lofi_coffee", "editorial_minimal", "upbeat_data", "morning_news"}

\* variant of eGenerateVoiceover that looks voice_name up even when a
\* voice_id is given
eGenerateVoiceover_always_lookup(s, env, output_file, voice_id, voice_name) ==
    IF lower(voice_name) \notin DOMAIN VOICES
    THEN Fail(s, "ValueError", "Unknown voice_name")
    ELSE LET r == tts_request(s, env, VOICES[lower(voice_name)])
             w == write_file(r, output_file)
             d == eGetDuration(w, env, output_file)
         IN  IF ~Last(r).ok THEN Fail(r, "RuntimeError", Text500(r))
             ELSE IF ~Ok(d) THEN d
             ELSE Done(d, output_file)

eGenerateVoiceover(s, env, output_file, voice_id, voice_name) ==
    IF voice_id = "None" /\ lower(voice_name) \notin DOMAIN VOICES
    THEN Fail(s, "ValueError", "Unknown voice_name")
    ELSE LET id == IF voice_id = "None" THEN VOICES[lower(voice_name)] ELSE voice_id
             r == tts_request(s, env, id)
             w == write_file(r, output_file)
             d == eGetDuration(w, env, output_file)
         IN  IF ~Last(r).ok THEN Fail(r, "RuntimeError", Text500(r))
             ELSE IF ~Ok(d) THEN d
             ELSE Done(d, output_file)

eGenerateMusic(s, env, preset, output_file) ==
    IF preset # "None" /\ preset \notin MUSIC_PRESETS
    THEN Fail(s, "ValueError", "Unknown preset")
    ELSE LET r == requests(s, env, "POST", "v1/music/stream")
             w == write_file(r, output_file)
             d == eGetDuration(w, env, output_file)
         IN  IF ~Last(r).ok THEN Fail(r, "RuntimeError", Text500(r))
             ELSE IF ~Ok(d) THEN d
             ELSE Done(d, output_file)

\* GitHubUploader
_get_sha(s, env, path) ==
    LET r == requests(s, env, "GET", "contents")
    IN  Done(r, IF Last(r).ok THEN "sha" ELSE "None")

_push(s, env, path) ==
    LET g == _get_sha(s, env, path)
        r == requests(g, env, "PUT", "contents")
    IN  IF ~Last(r).ok THEN Fail(r, "RuntimeError", JsonMessage(r))
        ELSE Done([r EXCEPT !.world.repo = @ \cup {path}], "json")

push_file(s, env, local_path, dest) ==
    IF ~isfile(s, local_path) THEN Fail(s, "FileNotFoundError", local_path)
    ELSE LET r == _push(s, env, dest)
         IN  IF ~Ok(r) THEN r ELSE Done(r, "None")

push_text(s, env, dest) ==
    LET r == _push(s, env, dest)
    IN  IF ~Ok(r) THEN r ELSE Done(r, "None")

\* the loop over files.items(), from the i-th item on
RECURSIVE push_story_pack(_, _, _, _)
push_story_pack(s, env, files, i) ==
    IF i > Len(files) THEN Done(s, "None")
    ELSE LET dest == files[i].suffix
             s1 == IF isfile(s, files[i].source)
                   THEN push_file(s, env, files[i].source, dest)
                   ELSE push_text(s, env, dest)
         IN  IF ~Ok(s1) THEN s1 ELSE push_story_pack(s1, env, files, i + 1)

\* SubstackPublisher
\* variant of _login that marks the publisher logged in before the request
_login_flag_first(s, env) ==
    IF s.world._logged_in THEN s
    ELSE LET r == requests([s EXCEPT !.world._logged_in = TRUE], env, "POST", "email-login")
         IN  IF ~Last(r).ok THEN Fail(r, "RuntimeError", Text(r))
             ELSE r

_login(s, env) ==
    IF s.world._logged_in THEN s
    ELSE LET r == requests(s, env, "POST", "email-login")
         IN  IF ~Last(r).ok THEN Fail(r, "RuntimeError", Text(r))
             ELSE [r EXCEPT !.world._logged_in = TRUE]

_create_post(s, env) ==
    LET l == _login(s, env)
        r == requests(l, env, "POST", "posts")
    IN  IF ~Ok(l) THEN l
        ELSE IF ~Last(r).ok THEN Fail(r, "RuntimeError", Text(r))
        ELSE Done([r EXCEPT !.world.posts = Append(@, "draft")],
                  Len(r.world.posts) + 1)

post_draft(s, env) == _create_post(s, env)

\* variant of post_scheduled that deletes the draft it could not schedule
post_scheduled_cleanup(s, env) ==
    LET l == _login(s, env)
        post == _create_post(l, env)
        post_id == post.out.val
        r == requests(post, env, "POST", "schedule")
    IN  IF ~Ok(l) THEN l
        ELSE IF ~Ok(post) THEN post
        ELSE IF ~Last(r).ok
        THEN Fail([r EXCEPT !.world.posts = SubSeq(@, 1, Len(@) - 1)],
                  "RuntimeError", Text(r))
        ELSE Done([r EXCEPT !.world.posts[post_id] = "scheduled"], "json")

post_scheduled(s, env) ==
    LET l == _login(s, env)
        post == _create_post(l, env)
        post_id == post.out.val
        r == requests(post, env, "POST", "schedule")
    IN  IF ~Ok(l) THEN l
        ELSE IF ~Ok(post) THEN post
        ELSE IF ~Last(r).ok THEN Fail(r, "RuntimeError", Text(r))
        ELSE Done([r EXCEPT !.world.posts[post_id] = "scheduled"], "json")

post_now(s, env) ==
    LET l == _login(s, env)
        post == _create_post(l, env)
        post_id == post.out.val
        r == requests(post, env, "POST", "publish")
    IN  IF ~Ok(l) THEN l
        ELSE IF ~Ok(post) THEN post
        ELSE IF ~Last(r).ok THEN Fail(r, "RuntimeError", Text(r))
        ELSE Done([r EXCEPT !.world.posts[post_id] = "published"], "json")

fetch_fred_series_call ==
    /\ call = NoCall
    /\ \E env \in Environments :
          Invoke("fetch_fred_series", <<>>, fetch_fred_series(Entry, env))

eListVoices_call ==
    /\ call = NoCall
    /\ \E env \in Environments : Invoke("eListVoices", <<>>, eListVoices(Entry, env))

eGenerateVoiceover_call ==
    /\ call = NoCall
    /\ \E env \in Environments, voice_id \in {"None", "customVoiceId"},
          voice_name \in {"george", "George", "nobody"} :
          Invoke("eGenerateVoiceover", <<voice_id, voice_name>>,
                 eGenerateVoiceover(Entry, env, "vo.mp3", voice_id, voice_name))

eGenerateMusic_call ==
    /\ call = NoCall
    /\ \E env \in Environments, preset \in {"None", "lofi_coffee", "polka"} :
          Invoke("eGenerateMusic", <<preset>>,
                 eGenerateMusic(Entry, env, preset, "bg_music.mp3"))

StoryPacks ==
    {<<[suffix |-> "caption.md", source |-> "caption text"]>>,
     <<[suffix |-> "caption.md", source |-> "caption text"],
       [suffix |-> "chart_sq.png", source |-> "chart_sq.png"]>>,
     <<[suffix |-> "caption.md", source |-> "caption text"],
       [suffix |-> "article.md", source |-> "article text"],
       [suffix |-> "chart_sq.png", source |-> "chart_sq.png"]>>}

push_story_pack_call ==
    /\ call = NoCall
    /\ \E env \in Environments, files \in StoryPacks :
          Invoke("push_story_pack", <<files>>, push_story_pack(Entry, env, files, 1))

post_draft_call ==
    /\ call = NoCall
    /\ \E env \in Environments : Invoke("post_draft", <<>>, post_draft(Entry, env))

post_scheduled_call ==
    /\ call = NoCall
    /\ \E env \in Environments :
          Invoke("post_scheduled", <<>>, post_scheduled(Entry, env))

post_now_call ==
    /\ call = NoCall
    /\ \E env \in Environments : Invoke("post_now", <<>>, post_now(Entry, env))

\* what is on disk and whether the publisher object has logged in before
LocalFiles == MediaFiles \cup {"chart_sq.png"}
InitPipeline ==
    /\ Idle
    /\ call = NoCall
    /\ \E missing \in SUBSET LocalFiles, logged_in \in BOOLEAN :
          /\ Cardinality(missing) <= 1
          /\ world = [files |-> LocalFiles \ missing, repo |-> {}, posts |-> <<>>,
                      _logged_in |-> logged_in]

NextPipeline ==
    \/ eGetDuration_call
    \/ eAddVoiceover_call
    \/ eAddMusic_call
    \/ eAddAudio_call
    \/ eConcatenateMP4_call
    \/ fetch_fred_series_call
    \/ eListVoices_call
    \/ eGenerateVoiceover_call
    \/ eGenerateMusic_call
    \/ push_story_pack_call
    \/ post_draft_call
    \/ post_scheduled_call
    \/ post_now_call

SpecPipeline == InitPipeline /\ [][NextPipeline]_vars

(***************************************************************************)
(* One SubstackPublisher used for several calls: _logged_in and the         *)
(* requests sent so far carry over from call to call.                       *)
(***************************************************************************)
\* a call sends at most three requests: login, create, schedule or publish
SessionEnvironments == [(Len(trace) + 1)..(Len(trace) + 3) -> BOOLEAN]
SessionCalls == IF call = NoCall THEN 0 ELSE call.args[1]

InitSession ==
    /\ Idle
    /\ call = NoCall
    /\ world = NoWorld

post_draft_next ==
    /\ SessionCalls < MaxSessionCalls
    /\ \E env \in SessionEnvironments :
          Invoke("post_draft", <<SessionCalls + 1>>, post_draft(Entry, env))

post_scheduled_next ==
    /\ SessionCalls < MaxSessionCalls
    /\ \E env \in SessionEnvironments :
          Invoke("post_scheduled", <<SessionCalls + 1>>, post_scheduled(Entry, env))

post_now_next ==
    /\ SessionCalls < MaxSessionCalls
    /\ \E env \in SessionEnvironments :
          Invoke("post_now", <<SessionCalls + 1>>, post_now(Entry, env))

NextSession ==
    \/ post_draft_next
    \/ post_scheduled_next
    \/ post_now_next

SpecSession == InitSession /\ [][NextSession]_vars

(***************************************************************************)
(* Properties.                                                              *)
(***************************************************************************)
Rendering == pc \in {"saving", "saved"} /\ frame >= 0
FpsTimesDuration == RMul(FromInt(args.fps), args.duration)
\* the hold_frames of the call (derived from hold_duration in the cover tile)
HoldFramesOfCall ==
    IF chart = "eCoverTileAnimateInstagram"
    THEN Floor(RMul(FromInt(args.fps), args.hold_duration))
    ELSE args.hold_frames
\* 1 - (1 - f/n)^k as one fraction
EaseOutAt(f, n, k) == Rat(n^k - (n - f)^k, n^k)

\* C1: in every animated chart, a frame with index >= total_anim has progress
\* exactly 1.0, whatever the easing.
C1_HoldPhaseClamp ==
    (Rendering /\ frame >= total_anim) => progress = One

C1_Witness ==
    /\ pc = "saving"
    /\ chart = "eCoverTileAnimateInstagram"
    /\ ease_fn = "_ease_out_quad"
    /\ total_anim > 0
    /\ frame > total_anim
    /\ progress = One

\* C2: progress never decreases from one rendered frame to the next, the step
\* from the last eased frame to the first clamped frame included.
C2_ProgressMonotone ==
    [][(pc = "saving" /\ pc' = "saving" /\ frame >= 0 /\ frame' = frame + 1)
          => RLe(progress, progress')]_vars

C2_Witness ==
    /\ pc = "saving"
    /\ chart = "eMultiLineChartAnimateInstagram"
    /\ total_anim > 2
    /\ frame = total_anim
    /\ frame + 1 < total_frames

\* C3: with total_anim > 0 the progress of every rendered frame is in [0, 1];
\* it is 0 at frame 0 and at most 1 at frame total_anim - 1.
C3_ProgressInUnitInterval ==
    (Rendering /\ total_anim > 0) =>
        /\ RLe(Zero, progress)
        /\ RLe(progress, One)
        /\ (frame = 0 => progress = Zero)
        /\ (frame = total_anim - 1 => RLe(progress, One))

C3_Witness ==
    /\ pc = "saving"
    /\ chart = "eStemChartAnimateInstagram"
    /\ total_anim > 2
    /\ frame = total_anim - 1
    /\ RLt(Zero, progress)
    /\ RLt(progress, One)

\* C4: linear is t, quad is 1 - (1 - t)^2, cubic is 1 - (1 - t)^3 on [0, 1];
\* each maps [0, 1] into [0, 1], 0 to 0 and 1 to 1.
C4_EasingFunctions ==
    (call.fn = "ease_fn" /\ call.done /\ call.easing \in DOMAIN _EASING) =>
        LET n == call.t[1]
            d == call.t[2]
        IN  /\ call.easing = "linear" => call.out = <<n, d>>
            /\ call.easing = "quad" => call.out = EaseOutAt(n, d, 2)
            /\ call.easing = "cubic" => call.out = EaseOutAt(n, d, 3)
            /\ RLe(Zero, call.out) /\ RLe(call.out, One)
            /\ (call.t = Zero => call.out = Zero)
            /\ (call.t = One => call.out = One)

C4_Witness ==
    /\ call.fn = "ease_fn"
    /\ call.done
    /\ call.easing = "cubic"
    /\ call.t = Rat(1, 2)
    /\ call.out = Rat(7, 8)

\* C5: with an unrecognized easing name every chart runs with cubic-out and no
\* exception is raised.
C5_UnknownEasingIsCubic ==
    (chart # "none" /\ args.easing \notin DOMAIN _EASING) =>
        /\ ease_fn = "_ease_out_cubic"
        /\ pc # "raised"
        /\ exc = "none"
        /\ (Rendering /\ frame < total_anim) => progress = EaseOutAt(frame, total_anim, 3)

C5_Witness ==
    /\ pc = "saving"
    /\ args.easing = "bounce"
    /\ frame >= 1
    /\ frame < total_anim
    /\ progress = EaseOutAt(frame, total_anim, 3)

\* C6 as stated: the number of frames rendered is
\* round(fps * duration) + hold_frames.
C6_FramesRounded ==
    pc = "saved" => saved = PyRound(FpsTimesDuration) + HoldFramesOfCall

\* C6 amended: the number of frames rendered is fps * duration truncated to a
\* whole number, plus hold_frames.
C6_FramesTruncated ==
    pc = "saved" => saved = Floor(FpsTimesDuration) + HoldFramesOfCall

C6_Witness ==
    /\ pc = "saved"
    /\ PyRound(FpsTimesDuration) # Floor(FpsTimesDuration)
    /\ HoldFramesOfCall > 0
    /\ saved = Floor(FpsTimesDuration) + HoldFramesOfCall

TwDone == call.fn = "_typewriter" /\ call.done

\* C7 as stated: _typewriter returns "" whenever progress <= start, for every
\* window.
C7_EmptyAtOrBeforeStart ==
    (TwDone /\ RLe(call.progress, call.start)) => call.out = Return("")

\* C7 amended: _typewriter returns "" whenever progress <= start and
\* progress < end.
C7_EmptyBeforeStartAndEnd ==
    (TwDone /\ RLe(call.progress, call.start) /\ RLt(call.progress, call.end))
        => call.out = Return("")

C7_Witness ==
    /\ TwDone
    /\ call.full_text = "HELLO"
    /\ RLt(call.progress, call.start)
    /\ RLt(call.start, call.end)
    /\ call.out = Return("")

\* C8: _typewriter returns the full text whenever progress >= end, for every
\* window; so at progress 1.0 a window with end <= 1 shows the whole text.
C8_FullAtOrAfterEnd ==
    (TwDone /\ RGe(call.progress, call.end)) => call.out = Return(call.full_text)

C8_Witness ==
    /\ TwDone
    /\ call.full_text = "HELLO"
    /\ call.progress = One
    /\ RLt(call.start, call.end)
    /\ RLt(call.end, One)
    /\ call.out = Return("HELLO")

\* C9: for start < progress < end _typewriter returns the prefix of length
\* floor((progress - start) / (end - start) * len(text)); window (0, 0.5),
\* "HELLO", progress 0.25 gives "HE".
C9_PrefixLength ==
    (TwDone /\ RLt(call.start, call.progress) /\ RLt(call.progress, call.end)) =>
        LET span == RSub(call.end, call.start)
            gone == RSub(call.progress, call.start)
            \* floor(gone / span * len) with integers only
            k == (gone[1] * span[2] * Len(call.full_text)) \div (gone[2] * span[1])
        IN  /\ call.out.exc = "none"
            /\ Len(call.out.val) = k
            /\ call.out.val = SubSeq(call.full_text, 1, k)
            /\ (call.full_text = "HELLO" /\ call.start = Zero /\ call.end = Rat(1, 2)
                  /\ call.progress = Rat(1, 4)) => call.out.val = "HE"

C9_Witness ==
    /\ TwDone
    /\ call.full_text = "HELLO"
    /\ call.start = Zero
    /\ call.end = Rat(1, 2)
    /\ call.progress = Rat(1, 4)
    /\ call.out = Return("HE")

\* C10: whatever the text, progress and window, the string _typewriter returns
\* is a prefix of the text, so never longer than the text.
C10_ResultIsPrefix ==
    (TwDone /\ call.out.exc = "none") =>
        /\ Len(call.out.val) <= Len(call.full_text)
        /\ call.out.val = SubSeq(call.full_text, 1, Len(call.out.val))

C10_Witness ==
    /\ TwDone
    /\ call.full_text = "Espresso"
    /\ Len(call.out.val) > 0
    /\ Len(call.out.val) < Len(call.full_text)

\* C11: _typewriter never divides by zero; with end <= start every progress
\* value is answered by one of the two threshold branches.
C11_NoDivisionByZero ==
    TwDone =>
        /\ call.out.exc = "none"
        /\ RLe(call.end, call.start) =>
              /\ call.out.val \in {"", call.full_text}
              /\ (RGe(call.progress, call.end) \/ RLe(call.progress, call.start))

C11_Witness ==
    /\ TwDone
    /\ call.full_text = "HELLO"
    /\ call.start = call.end
    /\ call.progress = call.start
    /\ call.out = Return("HELLO")

\* C12 as stated: with total_anim = 0, computing a frame's progress raises
\* ZeroDivisionError.
C12_ZeroFramesFaults ==
    (chart # "none" /\ total_anim = 0 /\ frame >= 0) =>
        (pc = "raised" /\ exc = "ZeroDivisionError")

\* C12 amended: with total_anim = 0 every frame satisfies frame >= total_anim,
\* so its progress is 1.0 and the division is never evaluated.
C12_ZeroFramesFullyRevealed ==
    (chart # "none" /\ total_anim = 0 /\ frame >= 0) =>
        /\ pc # "raised"
        /\ exc = "none"
        /\ progress = One
        /\ saved = frame + 1

C12_Witness ==
    /\ pc = "saving"
    /\ chart = "eSingleBarChartAnimateInstagram"
    /\ total_anim = 0
    /\ frame = 0
    /\ progress = One
    /\ exc = "none"

\* sweep angle shown for source wedge i (0-based): theta2 - theta1 of the
\* wedge drawn for it, 0 when no wedge is drawn for it
wedge_drawn(i) == \E k \in DOMAIN artists.wedges : artists.wedges[k].i = i
wedge_sweep(i) ==
    IF wedge_drawn(i)
    THEN LET w == artists.wedges[CHOOSE k \in DOMAIN artists.wedges :
                                     artists.wedges[k].i = i]
         IN  RSub(w.theta2, w.theta1)
    ELSE Zero

BarsScaled ==
    chart = "eSingleBarChartAnimateInstagram" =>
        \A i \in DOMAIN args.measure_vals :
            /\ artists.bars[i] = RMul(args.measure_vals[i], progress)
            /\ progress = Zero => artists.bars[i] = Zero
            /\ progress = One => artists.bars[i] = args.measure_vals[i]
StemsScaled ==
    chart = "eStemChartAnimateInstagram" =>
        /\ \A i \in DOMAIN args.y_a_final :
            /\ artists.stem_a[i] = RMul(args.y_a_final[i], progress)
            /\ progress = Zero => artists.stem_a[i] = Zero
            /\ progress = One => artists.stem_a[i] = args.y_a_final[i]
        /\ \A i \in DOMAIN args.y_b_final :
            artists.stem_b[i] = RMul(args.y_b_final[i], progress)

\* C13 as stated: in every rendered frame each bar width, stem height and
\* donut wedge sweep equals its final value times progress.
C13_QuantityIsFinalTimesProgress ==
    Rendering =>
        /\ BarsScaled
        /\ StemsScaled
        /\ chart = "eDonutChartAnimateInstagram" =>
              \A i \in 0..(args.n_wedges - 1) :
                  wedge_sweep(i) = RMul(args.angles_deg[i + 1], progress)

\* C13 amended: bar widths and stem heights equal final * progress; a donut
\* wedge is drawn only when final * progress is at least half a degree, and a
\* drawn wedge sweeps exactly final * progress.
C13_QuantityScaledOrWedgeSkipped ==
    Rendering =>
        /\ BarsScaled
        /\ StemsScaled
        /\ chart = "eDonutChartAnimateInstagram" =>
              \A i \in 0..(args.n_wedges - 1) :
                  LET wa == RMul(args.angles_deg[i + 1], progress)
                  IN  /\ wedge_drawn(i) <=> RGe(wa, Rat(1, 2))
                      /\ wedge_drawn(i) => wedge_sweep(i) = wa
                      /\ progress = One /\ RGe(args.angles_deg[i + 1], Rat(1, 2))
                            => wedge_sweep(i) = args.angles_deg[i + 1]

\* a frame in mid-animation of the 1 : 399 donut, its small wedge skipped
C13_Witness ==
    /\ Rendering
    /\ chart = "eDonutChartAnimateInstagram"
    /\ RLt(Zero, progress) /\ RLt(progress, One)
    /\ ~wedge_drawn(0)
    /\ wedge_drawn(1)
    /\ wedge_sweep(1) = RMul(args.angles_deg[2], progress)

LineFrame == Rendering /\ chart = "eMultiLineChartAnimateInstagram"
\* q moved by the fraction fr of the way from a to b
Lerp(a, b, fr) == RAdd(a, RMul(fr, RSub(b, a)))

\* C14 as stated: elements below floor(cursor) are fully shown and the tip is
\* element floor(cursor) moved toward its successor by the fractional part.
C14_TipFromCursorElement ==
    LineFrame =>
        \A li \in DOMAIN args.cols :
            LET cursor == RMul(progress, FromInt(args.n_rows))
                fl == Floor(cursor)
                fr == RSub(cursor, FromInt(fl))
                d == artists.lines[li]
            IN  fl + 2 <= args.n_rows =>
                    /\ Len(d.xs) = fl + 1
                    /\ \A j \in 1..fl : d.xs[j] = args.x_arr[j]
                    /\ d.xs[fl + 1] = Lerp(args.x_arr[fl + 1], args.x_arr[fl + 2], fr)
                    /\ d.ys[fl + 1] = Lerp(args.cols[li][fl + 1], args.cols[li][fl + 2], fr)

\* C14 amended: elements below floor(cursor) are fully shown; the tip is
\* element floor(cursor) - 1 moved toward element floor(cursor) by the
\* fractional part; with floor(cursor) = 0 only element 0 is shown, and with
\* floor(cursor) >= elementCount every element is shown.
C14_TipFromLastShownElement ==
    LineFrame =>
        \A li \in DOMAIN args.cols :
            LET cursor == RMul(progress, FromInt(args.n_rows))
                fl == Floor(cursor)
                fr == RSub(cursor, FromInt(fl))
                y == args.cols[li]
                d == artists.lines[li]
            IN  /\ Len(d.xs) = Len(d.ys)
                /\ fl >= args.n_rows => d.xs = args.x_arr /\ d.ys = y
                /\ fl = 0 /\ args.n_rows > 0 =>
                       d.xs = <<args.x_arr[1]>> /\ d.ys = <<y[1]>>
                /\ 0 < fl /\ fl < args.n_rows =>
                       /\ Len(d.xs) = fl + 1
                       /\ \A j \in 1..fl : d.xs[j] = args.x_arr[j] /\ d.ys[j] = y[j]
                       /\ d.xs[fl + 1] = Lerp(args.x_arr[fl], args.x_arr[fl + 1], fr)
                       /\ d.ys[fl + 1] = Lerp(y[fl], y[fl + 1], fr)
                /\ artists.dots[li] = <<d.xs[Len(d.xs)], d.ys[Len(d.ys)]>>
                /\ args.n_rows = 5 /\ progress = Rat(1, 2) =>
                       d.xs = <<Zero, One, Rat(3, 2)>>

\* five elements at progress 1/2: elements 0 and 1, then the tip half way
\* from element 1 to element 2
C14_Witness ==
    /\ LineFrame
    /\ args.n_rows = 5
    /\ progress = Rat(1, 2)
    /\ artists.lines[1] = [xs |-> <<Zero, One, Rat(3, 2)>>,
                           ys |-> <<One, FromInt(3), Rat(5, 2)>>]

LineCall == chart = "eMultiLineChartAnimateInstagram" /\ pc \in {"saving", "saved"}

\* C15: a value annotation at data position pos is hidden before the first
\* frame, visible in a frame exactly when the cursor progress * n_rows has
\* passed pos + 1/2, never hidden again once shown, and visible in every
\* frame of the hold phase.
C15_AnnotationToggle ==
    [][LineCall' =>
         \A vi \in DOMAIN args'.value_targets :
             LET pos == args'.value_targets[vi].pos
                 cursor == RMul(progress', FromInt(args'.n_rows))
             IN  /\ frame' = -1 => ~artists'.val_objs[vi]
                 /\ frame' >= 0 =>
                       (artists'.val_objs[vi] <=> RGt(cursor, RAdd(FromInt(pos), Rat(1, 2))))
                 /\ (LineCall /\ artists.val_objs[vi]) => artists'.val_objs[vi]
                 /\ (frame' >= 0 /\ frame' >= total_anim') => artists'.val_objs[vi]
      ]_vars

\* the annotations at position 2 are shown, those at position 4 not yet
C15_Witness ==
    /\ LineCall
    /\ frame >= 0
    /\ Len(args.value_targets) = 4
    /\ args.value_targets[1].pos = 4 /\ ~artists.val_objs[1]
    /\ args.value_targets[3].pos = 2 /\ artists.val_objs[3]

Called == call.fn \notin {"none", "ease_fn", "_typewriter"}
Failed == Called /\ call.out.exc # "none"
FailedAt(k) == k \in DOMAIN trace /\ ~trace[k].ok
IsShaLookup(k) == trace[k].tool = "GET" /\ trace[k].mode = "contents"

\* C17 as stated: after an external process or HTTP call has failed, the
\* operation issues nothing more and raises.
C17_NothingAfterFailure ==
    Called =>
        \A k \in DOMAIN trace :
            FailedAt(k) => (k = Len(trace) /\ call.out.exc # "none")

\* C17 amended: a failed interaction is never repeated and ends the operation
\* with an exception at once, except that eConcatenateMP4 follows a failed
\* stream copy by exactly one re-encoding run, and that a failed sha lookup
\* is followed by the PUT of the same push.
C17_OnlyFallbackAfterFailure ==
    Called =>
        /\ \A k \in DOMAIN trace :
              FailedAt(k) =>
                  \/ k = Len(trace) /\ call.out.exc # "none"
                  \/ /\ call.fn = "eConcatenateMP4"
                     /\ k = 1 /\ Len(trace) = 2
                     /\ trace[1].mode = "copy" /\ trace[2].mode = "libx264"
                  \/ /\ call.fn = "push_story_pack"
                     /\ IsShaLookup(k) /\ k < Len(trace)
                     /\ trace[k + 1].tool = "PUT"
        /\ (call.fn = "eConcatenateMP4" /\ FailedAt(1)) =>
              (Len(trace) = 2 /\ trace[2].tool = "ffmpeg" /\ trace[2].mode = "libx264")
        /\ \A k \in DOMAIN trace :
              (FailedAt(k) /\ k < Len(trace)) =>
                  <<trace[k + 1].tool, trace[k + 1].mode>> # <<trace[k].tool, trace[k].mode>>

\* the stream copy failed, the re-encoding run succeeded
C17_Witness ==
    /\ call.fn = "eConcatenateMP4"
    /\ Len(trace) = 2
    /\ ~trace[1].ok /\ trace[1].mode = "copy"
    /\ trace[2].ok /\ trace[2].mode = "libx264"
    /\ call.out = Return("espresso_reel.mp4")

\* what a function call has left behind: pushed paths, posts, written files
NoEffects ==
    /\ world.repo = {}
    /\ world.posts = <<>>
    /\ world.files \subseteq LocalFiles
OkEntries(tool, mode) ==
    {k \in DOMAIN trace : trace[k].tool = tool /\ trace[k].mode = mode /\ trace[k].ok}

\* C18 as stated: an operation that ends in failure leaves no pushed file, no
\* created post and no written output file.
C18_FailureLeavesNothing ==
    (Failed /\ call.fn \in {"push_story_pack", "post_scheduled", "post_now",
                            "eGenerateVoiceover", "eAddAudio"}) => NoEffects

\* C18 amended: an operation that ends in failure leaves exactly the effects
\* of the steps that succeeded before the failing one: the files of the pack
\* pushed so far, the draft created before a failed schedule or publish
\* request, the output file written before a failed duration probe.
C18_FailureKeepsCompletedSteps ==
    Failed =>
        /\ call.fn = "push_story_pack" =>
              LET files == call.args[1]
                  n == Cardinality(OkEntries("PUT", "contents"))
              IN  /\ n < Len(files)
                  /\ world.repo = {files[i].suffix : i \in 1..n}
        /\ call.fn \in {"post_scheduled", "post_now", "post_draft"} =>
              /\ world.posts = IF OkEntries("POST", "posts") # {} THEN <<"draft">> ELSE <<>>
              /\ call.fn = "post_draft" => world.posts = <<>>
        /\ call.fn = "eGenerateVoiceover" =>
              ("vo.mp3" \in world.files <=> OkEntries("POST", "v1/text-to-speech") # {})
        /\ call.fn = "eAddAudio" =>
              ("espresso_final.mp4" \in world.files <=> OkEntries("ffmpeg", "mux") # {})
        /\ call.fn \notin {"push_story_pack"} => world.repo = {}
        /\ call.fn \notin {"post_scheduled", "post_now", "post_draft"} => world.posts = <<>>

\* the schedule request failed; the draft created for it is still there
C18_Witness ==
    /\ Failed
    /\ call.fn = "post_scheduled"
    /\ call.out.exc = "RuntimeError"
    /\ trace[Len(trace)].mode = "schedule"
    /\ world.posts = <<"draft">>

MediaTools == {"eGetDuration", "eAddVoiceover", "eAddMusic", "eAddAudio"}
CarriesStderrOf(k) == call.out = RaiseWith("RuntimeError", <<"stderr", k>>)

\* C19 as stated: whenever ffmpeg or ffprobe run by one of the five media
\* functions exits non-zero, the function ends in a failure carrying that
\* run's stderr.
C19_NonZeroExitAlwaysFails ==
    (Called /\ call.fn \in MediaTools \cup {"eConcatenateMP4"}) =>
        \A k \in DOMAIN trace : FailedAt(k) => CarriesStderrOf(k)

\* C19 amended: in eGetDuration, eAddVoiceover, eAddMusic and eAddAudio a
\* non-zero exit ends the call with a RuntimeError carrying that run's stderr;
\* eConcatenateMP4 fails, with the stderr of the re-encoding run, only when
\* the re-encoding run exits non-zero too, and returns the output path when
\* the re-encoding run succeeds.
C19_NonZeroExitFailsButForFallback ==
    Called =>
        /\ call.fn \in MediaTools =>
              /\ \A k \in DOMAIN trace :
                    FailedAt(k) => (k = Len(trace) /\ CarriesStderrOf(k))
              /\ call.out.exc = "none" => \A k \in DOMAIN trace : trace[k].ok
        /\ call.fn = "eConcatenateMP4" =>
              /\ (FailedAt(1) /\ FailedAt(2)) => CarriesStderrOf(2)
              /\ (FailedAt(1) /\ ~FailedAt(2)) =>
                    /\ Len(trace) = 2
                    /\ call.out = Return("espresso_reel.mp4")
                    /\ "espresso_reel.mp4" \in world.files
              /\ call.out.exc = "RuntimeError" => (FailedAt(1) /\ FailedAt(2))
              /\ "list_path" \notin world.files

\* eAddAudio ended by the non-zero exit of its ffmpeg run
C19_Witness ==
    /\ call.fn = "eAddAudio"
    /\ Len(trace) >= 2
    /\ trace[Len(trace)].tool = "ffmpeg" /\ ~trace[Len(trace)].ok
    /\ CarriesStderrOf(Len(trace))
    /\ "espresso_final.mp4" \notin world.files

HttpFailedAt(k) == FailedAt(k) /\ trace[k].kind = "http"
CarriesTextOf(k) == call.out.val \in {<<"text", k>>, <<"text[:500]", k>>}

\* C20: every non-success HTTP response ends the wrapper that received it in
\* a failure whose message carries the text of that response.
C20_NonSuccessCarriesResponseText ==
    Called =>
        \A k \in DOMAIN trace :
            HttpFailedAt(k) => (call.out.exc # "none" /\ CarriesTextOf(k))

\* C21: an unknown voice_name without a voice_id, and an unknown preset, end
\* the call with ValueError before any request is sent or file written; a
\* given voice_id is used whatever voice_name is.
C21_UnknownNameRejectedFirst ==
    Called =>
        /\ (call.fn = "eGenerateVoiceover" /\ call.args[1] = "None"
              /\ lower(call.args[2]) \notin DOMAIN VOICES) =>
              /\ call.out.exc = "ValueError"
              /\ trace = <<>>
              /\ "vo.mp3" \notin world.files
        /\ (call.fn = "eGenerateMusic" /\ call.args[1] # "None"
              /\ call.args[1] \notin MUSIC_PRESETS) =>
              /\ call.out.exc = "ValueError"
              /\ trace = <<>>
              /\ "bg_music.mp3" \notin world.files
        /\ (call.fn = "eGenerateVoiceover" /\ call.args[1] # "None") =>
              /\ call.out.exc # "ValueError"
              /\ Len(trace) >= 1
              /\ trace[1].voice_id = call.args[1]
        /\ (call.fn = "eGenerateVoiceover" /\ call.args[1] = "None"
              /\ lower(call.args[2]) \in DOMAIN VOICES) =>
              /\ Len(trace) >= 1
              /\ trace[1].voice_id = VOICES[lower(call.args[2])]

C21_Witness ==
    /\ call.fn = "eGenerateVoiceover"
    /\ call.args = <<"None", "nobody">>
    /\ call.out.exc = "ValueError"
    /\ trace = <<>>
    /\ "vo.mp3" \notin world.files

\* the input files a media call refers to
ReferencedInputs ==
    CASE call.fn = "eAddVoiceover" -> {"video.mp4", "voiceover.mp3"}
      [] call.fn = "eAddMusic" -> {"video.mp4", "music.mp3"}
      [] call.fn = "eAddAudio" -> {"video.mp4", call.args[1], call.args[3]} \ {"None"}
      [] call.fn = "eConcatenateMP4" ->
            {call.args[1][i] : i \in DOMAIN call.args[1]}
      [] OTHER -> {}
\* a call that passes its argument checks and refers to a file not on disk
InputMissing ==
    /\ Called
    /\ call.fn \in {"eAddVoiceover", "eAddMusic", "eAddAudio", "eConcatenateMP4"}
    /\ call.fn = "eConcatenateMP4" => Len(call.args[1]) >= 2
    /\ call.fn = "eAddAudio" => <<call.args[1], call.args[3]>> # <<"None", "None">>
    /\ ~(ReferencedInputs \subseteq world.files)

\* C22 as stated: a missing input file ends the call with FileNotFoundError
\* before any process is run and before any file is created.
C22_MissingFileBeforeAnyProcess ==
    InputMissing =>
        /\ call.out.exc = "FileNotFoundError"
        /\ trace = <<>>
        /\ world.files \subseteq LocalFiles

\* C22 amended: so it is in eAddVoiceover, eAddMusic and eConcatenateMP4 and
\* for eAddAudio's video file; a missing voiceover or music file of eAddAudio
\* is found only after ffprobe has run on the files checked before it, still
\* before ffmpeg runs and before any file is created.
C22_MissingFileBeforeFfmpeg ==
    InputMissing =>
        /\ world.files \subseteq LocalFiles
        /\ \A k \in DOMAIN trace : trace[k].tool = "ffprobe"
        /\ (call.fn # "eAddAudio" \/ "video.mp4" \notin world.files) =>
              (call.out.exc = "FileNotFoundError" /\ trace = <<>>)
        /\ (call.fn = "eAddAudio" /\ "video.mp4" \in world.files) =>
              /\ Len(trace) >= 1
              /\ call.out.exc \in {"FileNotFoundError", "RuntimeError"}
              /\ call.out.exc = "FileNotFoundError" <=> (\A k \in DOMAIN trace : trace[k].ok)

\* eAddAudio finds the voiceover file missing after probing the video
C22_Witness ==
    /\ InputMissing
    /\ call.fn = "eAddAudio"
    /\ "voiceover.mp3" \in ReferencedInputs \ world.files
    /\ call.out.exc = "FileNotFoundError"
    /\ Len(trace) = 1 /\ trace[1].tool = "ffprobe" /\ trace[1].ok

IsLogin(k) == trace[k].mode = "email-login"
LoginOkBefore(k) == \E j \in 1..(k - 1) : IsLogin(j) /\ trace[j].ok

\* C23: on one SubstackPublisher no login request follows a successful one,
\* every request sent before a login has succeeded is a login request, and
\* while no login has succeeded the publisher stays logged out and every
\* call sends a login request.
C23_LoginOncePerSession ==
    /\ Cardinality({k \in DOMAIN trace : IsLogin(k) /\ trace[k].ok}) <= 1
    /\ \A k \in DOMAIN trace :
          /\ LoginOkBefore(k) => ~IsLogin(k)
          /\ ~LoginOkBefore(k) => IsLogin(k)
    /\ world._logged_in <=> (\E k \in DOMAIN trace : IsLogin(k) /\ trace[k].ok)
    /\ ~world._logged_in =>
          /\ Len(trace) = SessionCalls
          /\ world.posts = <<>>
          /\ SessionCalls > 0 => call.out.exc = "RuntimeError"

\* a failed login, a call that logs in, and a call that needs no login
C23_Witness ==
    /\ SessionCalls = 3
    /\ Len(trace) >= 4
    /\ IsLogin(1) /\ ~trace[1].ok
    /\ IsLogin(2) /\ trace[2].ok
    /\ trace[3].mode = "posts" /\ trace[3].ok
    /\ trace[Len(trace)].mode = "publish"
    /\ world._logged_in

\* the cover tile called with its default typewriter windows (all 0)
CoverDefaults ==
    /\ chart = "eCoverTileAnimateInstagram"
    /\ <<args.tw_suptitle_start, args.tw_suptitle_end,
         args.tw_subtitle_start, args.tw_subtitle_end>> = <<Zero, Zero, Zero, Zero>>
IsPrefixOf(t, full) == Len(t) <= Len(full) /\ t = PySlicePrefix(full, Len(t))

\* C24: with the default timing parameters the cover tile shows an empty
\* title and subtitle at the first frame, prefixes of them in every frame and
\* the full texts in the hold phase.
C24_CoverTitlesTypedOn ==
    (Rendering /\ CoverDefaults) =>
        /\ IsPrefixOf(artists.suptitle, args.txt_suptitle)
        /\ IsPrefixOf(artists.subtitle, args.txt_subtitle)
        /\ (frame = 0 /\ total_anim > 0) =>
              (artists.suptitle = "" /\ artists.subtitle = "")
        /\ frame >= total_anim =>
              /\ artists.suptitle = args.txt_suptitle
              /\ artists.subtitle = args.txt_subtitle

\* C25: from one rendered frame to the next neither title gets shorter, and
\* a title that shows its full text keeps showing it.
C25_TitlesNeverShrink ==
    [][(pc = "saving" /\ pc' = "saving" /\ frame' = frame + 1) =>
          /\ Len(artists'.suptitle) >= Len(artists.suptitle)
          /\ Len(artists'.subtitle) >= Len(artists.subtitle)
          /\ (frame >= 0 /\ artists.suptitle = args.txt_suptitle) =>
                artists'.suptitle = args.txt_suptitle
          /\ (frame >= 0 /\ artists.subtitle = args.txt_subtitle) =>
                artists'.subtitle = args.txt_subtitle
      ]_vars

\* a later frame in which the title is part revealed
C25_Witness ==
    /\ Rendering
    /\ frame >= 2
    /\ args.txt_suptitle = "HELLO"
    /\ Len(artists.suptitle) \in 2..4
    /\ artists.subtitle = ""

Between(a, v, b) == (RLe(a, v) /\ RLe(v, b)) \/ (RLe(b, v) /\ RLe(v, a))

\* C28: in every frame of the multi-line chart the cursor progress * n_rows
\* lies in [0, n_rows]; a tip is interpolated only when 1 <= floor(cursor) <=
\* n_rows - 1, from the data points floor(cursor) - 1 and floor(cursor)
\* (0-based), and lies between them; otherwise the dot is on the first or the
\* last data point; at progress 1.0 the whole series is drawn and the dot is
\* on the last data point.
C28_CursorInsideData ==
    LineFrame =>
        LET n == args.n_rows
            cursor == line_reveal(progress)
            full == PyInt(cursor)
        IN  /\ n >= 1
            /\ RGe(cursor, Zero) /\ RLe(cursor, FromInt(n))
            /\ \A li \in DOMAIN args.cols :
                  LET y == args.cols[li]
                      d == artists.lines[li]
                      dot == artists.dots[li]
                      interpolated == Len(d.xs) > 1 /\ ~RGe(cursor, FromInt(n))
                  IN  /\ Len(d.xs) \in 1..n
                      /\ Len(d.ys) = Len(d.xs)
                      /\ dot = <<d.xs[Len(d.xs)], d.ys[Len(d.ys)]>>
                      /\ interpolated <=> (1 <= full /\ full <= n - 1)
                      /\ interpolated =>
                            /\ Len(d.xs) = full + 1
                            /\ Between(args.x_arr[full], dot[1], args.x_arr[full + 1])
                            /\ Between(y[full], dot[2], y[full + 1])
                      /\ full = 0 => dot = <<args.x_arr[1], y[1]>>
                      /\ progress = One =>
                            /\ d.xs = args.x_arr
                            /\ d.ys = y
                            /\ dot = <<args.x_arr[n], y[n]>>

\* a tip strictly between the third and the fourth of five data points
C28_Witness ==
    /\ LineFrame
    /\ args.n_rows = 5
    /\ PyInt(line_reveal(progress)) = 3
    /\ Len(artists.lines[1].xs) = 4
    /\ RLt(args.x_arr[3], artists.dots[1][1])
    /\ RLt(artists.dots[1][1], args.x_arr[4])

DonutFrame == Rendering /\ chart = "eDonutChartAnimateInstagram"
\* the sweep of source wedge i (0-based) in the current frame
sweep_now(i) == RMul(args.angles_deg[i + 1], progress)
\* the sweeps of the source wedges 0 .. i - 1 added up
RECURSIVE sweep_before(_)
sweep_before(i) == IF i = 0 THEN Zero ELSE RAdd(sweep_before(i - 1), sweep_now(i - 1))
WedgeSkipping ==
    \A i \in 0..(args.n_wedges - 1) : wedge_drawn(i) <=> ~RLt(sweep_now(i), Rat(1, 2))
WedgeTexts ==
    \A k \in DOMAIN artists.wedges :
        /\ artists.wedges[k].label => RGt(progress, Rat(1, 2))
        /\ artists.wedges[k].pct => RGt(progress, Rat(3, 10))
        /\ artists.wedges[k].label <=> (args.has_labels /\ RGt(progress, Rat(1, 2)))
        /\ artists.wedges[k].pct <=> (args.show_pct /\ RGt(progress, Rat(3, 10)))

\* C29 as stated: a wedge is drawn exactly when its sweep is at least 0.5
\* degrees; the drawn wedges are contiguous clockwise from 90 degrees (the
\* first starts at 90, each next one starts where the one before ends); the
\* sweeps add up to 360 * progress; labels only when progress > 0.5,
\* percentages only when progress > 0.3.
C29_DrawnWedgesContiguous ==
    DonutFrame =>
        /\ WedgeSkipping
        /\ artists.wedges # <<>> => artists.wedges[1].theta2 = FromInt(90)
        /\ \A k \in 1..(Len(artists.wedges) - 1) :
              artists.wedges[k + 1].theta2 = artists.wedges[k].theta1
        /\ sweep_before(args.n_wedges) = RMul(FromInt(360), progress)
        /\ WedgeTexts

\* C29 amended: every wedge, drawn or not, takes the slot that starts at 90
\* degrees minus the sweeps of all wedges before it; a wedge is drawn, in its
\* slot, exactly when its sweep is at least 0.5 degrees, so the drawn wedges
\* are in clockwise order and do not overlap, with a gap in front of a drawn
\* wedge wherever wedges before it were skipped; the slots together cover
\* 360 * progress; labels only when progress > 0.5, percentages only when
\* progress > 0.3.
C29_WedgesInTheirSlots ==
    DonutFrame =>
        /\ WedgeSkipping
        /\ \A k \in DOMAIN artists.wedges :
              LET w == artists.wedges[k]
              IN  /\ w.i \in 0..(args.n_wedges - 1)
                  /\ w.theta2 = RSub(FromInt(90), sweep_before(w.i))
                  /\ w.theta1 = RSub(w.theta2, sweep_now(w.i))
        /\ \A k \in 1..(Len(artists.wedges) - 1) :
              /\ artists.wedges[k].i < artists.wedges[k + 1].i
              /\ RLe(artists.wedges[k + 1].theta2, artists.wedges[k].theta1)
              /\ artists.wedges[k + 1].i = artists.wedges[k].i + 1 =>
                    artists.wedges[k + 1].theta2 = artists.wedges[k].theta1
        /\ sweep_before(args.n_wedges) = RMul(FromInt(360), progress)
        /\ WedgeTexts

\* the small wedge of the 1 : 399 donut is skipped and the large one starts
\* below 90 degrees, with its percentage but not yet its label
C29_Witness ==
    /\ DonutFrame
    /\ args.n_wedges = 2
    /\ args.has_labels /\ args.show_pct
    /\ Len(artists.wedges) = 1
    /\ artists.wedges[1].i = 1
    /\ RLt(artists.wedges[1].theta2, FromInt(90))
    /\ artists.wedges[1].pct
    /\ ~artists.wedges[1].label

\* number of places at which sub occurs in str
Count(str, sub) ==
    Cardinality({i \in 1..(Len(str) - Len(sub) + 1) : SubSeq(str, i, i + Len(sub) - 1) = sub})
StartsWith(str, pre) == Len(pre) <= Len(str) /\ SubSeq(str, 1, Len(pre)) = pre
EndsWith(str, suf) ==
    Len(suf) <= Len(str) /\ SubSeq(str, Len(str) - Len(suf) + 1, Len(str)) = suf
\* ffmpeg's number of the input file f: the -i options before its own
input_no(inputs, f) ==
    LET at == CHOOSE j \in DOMAIN inputs : inputs[j] = f
    IN  Cardinality({j \in 1..(at - 2) : inputs[j] = "-i"})
SourceLabel(inputs, f) == "[" \o ToString(input_no(inputs, f)) \o ":a]"

\* C30: eAddAudio without voiceover and music ends with ValueError before
\* anything else; otherwise the ffmpeg command gives the voiceover input 1
\* and the music the next number (1 when alone), the filter graph reads each
\* stream from the input of that number, and it defines [aout] exactly once,
\* at its end: by amix of [vo] and [music] when both are given, otherwise in
\* place of the single stream's own label.
C30_OneOutputLabel ==
    call.fn = "eAddAudio" =>
        LET vo == call.args[1]
            mu == call.args[3]
        IN  /\ (vo = "None" /\ mu = "None") =>
                  /\ call.out.exc = "ValueError"
                  /\ trace = <<>>
                  /\ NoEffects
            /\ \A k \in DOMAIN trace :
                  trace[k].tool = "ffmpeg" =>
                      LET inputs == trace[k].cmd.inputs
                          g == trace[k].cmd.filter_complex
                      IN  /\ vo # "None" \/ mu # "None"
                          /\ input_no(inputs, "video.mp4") = 0
                          /\ vo # "None" =>
                                /\ input_no(inputs, vo) = 1
                                /\ StartsWith(g, SourceLabel(inputs, vo) \o "volume=1.0")
                          /\ mu # "None" =>
                                /\ input_no(inputs, mu) = IF vo # "None" THEN 2 ELSE 1
                                /\ Count(g, SourceLabel(inputs, mu) \o "volume=0.12") = 1
                          /\ Count(g, ":a]") = Cardinality({vo, mu} \ {"None"})
                          /\ Count(g, "[aout]") = 1
                          /\ EndsWith(g, "[aout]")
                          /\ (vo # "None" /\ mu # "None") =>
                                /\ Count(g, ";") = 2
                                /\ Count(g, "[vo];") = 1
                                /\ Count(g, "[music];") = 1
                                /\ EndsWith(g, ";[vo][music]amix=inputs=2:duration=first:dropout_transition=0[aout]")
                          /\ (vo = "None" \/ mu = "None") =>
                                /\ Count(g, ";") = 0
                                /\ Count(g, "[vo]") = 0
                                /\ Count(g, "[music]") = 0
                                /\ Count(g, "amix") = 0
                                /\ vo # "None" => EndsWith(g, ",apad=whole_dur=<vid_dur>[aout]")
                                /\ mu # "None" => EndsWith(g, ",asetpts=PTS-STARTPTS[aout]")

\* music alone: read from input 1, its label [music] replaced by [aout]
C30_Witness ==
    /\ call.fn = "eAddAudio"
    /\ call.args[1] = "None"
    /\ call.args[3] = "music.mp3"
    /\ call.out = Return("espresso_final.mp4")
    /\ Len(trace) = 3
    /\ trace[2].cmd.inputs = <<"-i", "video.mp4", "-stream_loop", "-1", "-i", "music.mp3">>
    /\ StartsWith(trace[2].cmd.filter_complex, "[1:a]volume=0.12")
    /\ EndsWith(trace[2].cmd.filter_complex, "asetpts=PTS-STARTPTS[aout]")

====
